---- MODULE Spec2Model ----
(***************************************************************************)
(* Centec MARS PHY driver (mars.c): the indirect register accessor, the    *)
(* page/space selector, port-type detection, forced/autoneg configuration, *)
(* link polling and Wake-on-LAN, over a register-level model of the chip.  *)
(*                                                                         *)
(* Every driver function is an operator from a bus context to a bus        *)
(* context and a return value, written statement by statement from the C   *)
(* source.  A context b is [chip, fail, n, log, dev, pt, ps]:               *)
(*   chip : the registers of the addressed chip,                           *)
(*   fail : which of the coming bus transactions fail, and with what code, *)
(*   n    : the number of bus transactions issued so far in this call,     *)
(*   log  : the bus transactions issued so far, in order,                  *)
(*   dev  : the struct phy_device of the call,                             *)
(*   pt   : g_port_type,   ps : g_port_status.                             *)
(***************************************************************************)
EXTENDS Integers, Sequences, FiniteSets, TLC

VARIABLES
    chip,           \* chip[d]: the registers of the PHY of device d
    phydev,         \* phydev[d]: the struct phy_device fields the driver uses
    g_port_type,    \* static int g_port_type   (one per driver, not per device)
    g_port_status,  \* static int g_port_status (the "Active Media")
    hist,           \* the driver calls made so far: <<[name, dev, ret], ...>>
    last,           \* the last call: its arguments, the state before, its bus log
    thr             \* the threads of the concurrent specification

vars == <<chip, phydev, g_port_type, g_port_status, hist, last, thr>>

----------------------------------------------------------------------------
(* C integer operators on non-negative values.                             *)

RECURSIVE BitAnd(_, _)
BitAnd(a, b) ==
    IF a = 0 \/ b = 0 THEN 0
    ELSE (a % 2) * (b % 2) + 2 * BitAnd(a \div 2, b \div 2)

BitOr(a, b) == a + b - BitAnd(a, b)

\* a & ~m
BitClear(a, m) == a - BitAnd(a, m)

----------------------------------------------------------------------------
(* Register numbers and bits.                                              *)

CTC_PHY_REG_SPACE == 0
CTC_SDS_REG_SPACE == 1
CTC_MARS_PAGE_REG == \ha000
CTC_MARS_CHIP_CFG_REG == \ha001
CTC_MARS_SSREG == \h11
\* the interrupt mask register and its WOL bit
CTC_MARS_INTR_REG == \h12
CTC_MARS_WOL_INTR == \h40
CTC_MARS_MAGIC_PACKET_MAC_ADDR2 == \ha007
CTC_MARS_MAGIC_PACKET_MAC_ADDR1 == \ha008
CTC_MARS_MAGIC_PACKET_MAC_ADDR0 == \ha009
CTC_MARS_WOL_CFG_REG == \ha00a
CTC_MARS_WOL_TYPE == \h01
CTC_MARS_WOL_EN == \h08
CTC_MARS_WOL_INTR_SEL == \h40
CTC_MARS_WOL_WIDTH1 == \h02
CTC_MARS_WOL_WIDTH2 == \h04

\* the address-latch and data registers of the indirect protocol
LATCH_REG == \h1e
DATA_REG == \h1f
\* the link-timer register written at initialisation
LINK_TIMER_REG == \ha5

MARS_PORT_TYPE_UTP == 0
MARS_PORT_TYPE_FIBER == 1
MARS_PORT_TYPE_COMBO == 2

MARS_WOL_TYPE_LEVEL == 0
MARS_WOL_TYPE_PULSE == 1
MARS_WOL_WIDTH_84MS == 0
MARS_WOL_WIDTH_168MS == 1
MARS_WOL_WIDTH_336MS == 2
MARS_WOL_WIDTH_672MS == 3

\* <linux/mii.h>, as the driver uses them
MII_BMCR == \h00
MII_BMSR == \h01
MII_ADVERTISE == \h04
MII_LPA == \h05
MII_CTRL1000 == \h09
MII_ESTATUS == \h0f

BMCR_ANRESTART == \h0200
BMCR_ISOLATE == \h0400
BMCR_ANENABLE == \h1000

BMSR_LSTATUS == \h0004
BMSR_ESTATEN == \h0100

\* negative errno values a failing bus transaction returns
EIO == -5
ETIMEDOUT == -110

----------------------------------------------------------------------------
(* The chip.  Registers 0x00..0x1d are banked by the selected space; the   *)
(* extended registers are reached through the latch/data pair; extended    *)
(* registers from 0xa000 up are common to both spaces, the others banked.  *)
(* The space is selected by bit 1 of extended register 0xa000.             *)

Spaces == {CTC_PHY_REG_SPACE, CTC_SDS_REG_SPACE}

MiiRegs == {MII_BMCR, MII_BMSR, MII_ADVERTISE, MII_LPA, MII_CTRL1000,
            MII_ESTATUS, CTC_MARS_SSREG, CTC_MARS_INTR_REG}

CommonExt == {CTC_MARS_PAGE_REG, CTC_MARS_CHIP_CFG_REG, CTC_MARS_WOL_CFG_REG,
              CTC_MARS_MAGIC_PACKET_MAC_ADDR2, CTC_MARS_MAGIC_PACKET_MAC_ADDR1,
              CTC_MARS_MAGIC_PACKET_MAC_ADDR0}

BankedExt == {LINK_TIMER_REG}

Space(c) ==
    IF BitAnd(c.ext[<<CTC_PHY_REG_SPACE, CTC_MARS_PAGE_REG>>], 2) # 0
    THEN CTC_SDS_REG_SPACE ELSE CTC_PHY_REG_SPACE

ExtKey(c, regnum) ==
    IF regnum \in CommonExt THEN <<CTC_PHY_REG_SPACE, regnum>>
    ELSE <<Space(c), regnum>>

ChipRead(c, reg) ==
    IF reg = DATA_REG
    THEN IF ExtKey(c, c.latch) \in DOMAIN c.ext THEN c.ext[ExtKey(c, c.latch)] ELSE 0
    ELSE IF reg = LATCH_REG THEN c.latch
    \* the link-status bit of BMSR latches low: it reads 0 once after a link
    \* drop (c.stale holds the spaces with a drop not yet read)
    ELSE IF reg = MII_BMSR /\ Space(c) \in c.stale
    THEN BitClear(c.mii[<<Space(c), reg>>], BMSR_LSTATUS)
    ELSE IF <<Space(c), reg>> \in DOMAIN c.mii THEN c.mii[<<Space(c), reg>>]
    ELSE 0

ChipWrite(c, reg, val) ==
    IF reg = DATA_REG
    THEN IF ExtKey(c, c.latch) \in DOMAIN c.ext
         THEN [c EXCEPT !.ext[ExtKey(c, c.latch)] = val] ELSE c
    ELSE IF reg = LATCH_REG THEN [c EXCEPT !.latch = val]
    ELSE IF <<Space(c), reg>> \in DOMAIN c.mii
         THEN [c EXCEPT !.mii[<<Space(c), reg>>] = val]
    ELSE c

----------------------------------------------------------------------------
(* The bus: phy_read / phy_write of the host framework.  A transaction     *)
(* that fails returns a negative errno and leaves the chip as it was.      *)

NoFail == [i1 |-> 0, i2 |-> 0]

\* the k-th transaction of a call fails with EIO if it is the plan's first
\* failure, with ETIMEDOUT if it is its second
FailCode(fp, k) ==
    IF fp.i1 # 0 /\ k = fp.i1 THEN EIO
    ELSE IF fp.i2 # 0 /\ k = fp.i2 THEN ETIMEDOUT
    ELSE 0

\* the plans with at most two failures among the first m transactions
FailPlans(m) ==
    {fp \in [i1 : 0..m, i2 : 0..m] : fp.i2 = 0 \/ (fp.i1 # 0 /\ fp.i1 < fp.i2)}

\* the plans with at most one failure among the first m transactions
FailPlans1(m) == {[i1 |-> i, i2 |-> 0] : i \in 0..m}

Bus(c, fp, pd, pt, ps) ==
    [chip |-> c, fail |-> fp, n |-> 0, log |-> <<>>, dev |-> pd, pt |-> pt, ps |-> ps]

phy_write(b, reg, val) ==
    LET k == b.n + 1
        e == FailCode(b.fail, k)
        \* u16 val
        v == val % 65536
    IN  [b |-> [b EXCEPT
                !.chip = IF e < 0 THEN b.chip ELSE ChipWrite(b.chip, reg, v),
                !.n = k,
                !.log = Append(b.log, [op |-> "w", reg |-> reg, val |-> v,
                                       ret |-> e, space |-> Space(b.chip),
                                       latch |-> b.chip.latch])],
         ret |-> e]

phy_read(b, reg) ==
    LET k == b.n + 1
        e == FailCode(b.fail, k)
        v == IF e < 0 THEN e ELSE ChipRead(b.chip, reg)
    IN  [b |-> [b EXCEPT
                \* a read of BMSR releases its latched link-status bit
                !.chip = IF e >= 0 /\ reg = MII_BMSR
                         THEN [b.chip EXCEPT !.stale = @ \ {Space(b.chip)}]
                         ELSE b.chip,
                !.n = k,
                !.log = Append(b.log, [op |-> "r", reg |-> reg, val |-> v,
                                       ret |-> e, space |-> Space(b.chip),
                                       latch |-> b.chip.latch])],
         ret |-> v]

----------------------------------------------------------------------------
(* Sequencing.  r = [b, ret] is what a call handed back: the context it    *)
(* left and its return value.                                              *)

\* ret = f(...); if (ret < 0) return ret; K(ret)
Bind(r, K(_)) == IF r.ret < 0 THEN r ELSE K(r)

\* val = f(...); K(val)      (the return value is not checked here)
Then(r, K(_)) == K(r)

Ok(b) == [b |-> b, ret |-> 0]

Ret(b, v) == [b |-> b, ret |-> v]

----------------------------------------------------------------------------
(* The indirect register accessor and the page/space selector.             *)

\* reads the data register although the latch write failed
mars_ext_read_nocheck(b, regnum) ==
    Then(phy_write(b, LATCH_REG, regnum), LAMBDA w :
    phy_read(w.b, DATA_REG))

mars_ext_read(b, regnum) ==
    Bind(phy_write(b, LATCH_REG, regnum), LAMBDA w :
    phy_read(w.b, DATA_REG))

mars_ext_write(b, regnum, val) ==
    Bind(phy_write(b, LATCH_REG, regnum), LAMBDA w :
    phy_write(w.b, DATA_REG, val))

\* writes the space number itself to the page register
mars_select_reg_space_raw(b, space) ==
    mars_ext_write(b, CTC_MARS_PAGE_REG, space)

mars_select_reg_space(b, space) ==
    IF space = CTC_PHY_REG_SPACE
    THEN mars_ext_write(b, CTC_MARS_PAGE_REG, 0)
    ELSE mars_ext_write(b, CTC_MARS_PAGE_REG, 2)

\* the restore masks bit 0 of the page register instead of bit 1
mars_page_read_mask1(b, page, regnum) ==
    Bind(mars_ext_read(b, CTC_MARS_PAGE_REG), LAMBDA oldpage :
    Bind(mars_select_reg_space(oldpage.b, page), LAMBDA s :
    Then(phy_read(s.b, regnum), LAMBDA val :
    Bind(mars_select_reg_space(val.b, BitAnd(oldpage.ret, 1)), LAMBDA r :
    Ret(r.b, val.ret)))))

mars_page_read(b, page, regnum) ==
    Bind(mars_ext_read(b, CTC_MARS_PAGE_REG), LAMBDA oldpage :
    Bind(mars_select_reg_space(oldpage.b, page), LAMBDA s :
    Then(phy_read(s.b, regnum), LAMBDA val :
    \* Recover to old page
    Bind(mars_select_reg_space(val.b, BitAnd(oldpage.ret, 2)), LAMBDA r :
    Ret(r.b, val.ret)))))

\* returns at once when the inner write fails, without the restore
mars_page_write_early(b, page, regnum, value) ==
    Bind(mars_ext_read(b, CTC_MARS_PAGE_REG), LAMBDA oldpage :
    Bind(mars_select_reg_space(oldpage.b, page), LAMBDA s :
    Bind(phy_write(s.b, regnum, value), LAMBDA val :
    Bind(mars_select_reg_space(val.b, BitAnd(oldpage.ret, 2)), LAMBDA r :
    Ret(r.b, val.ret)))))

mars_page_write(b, page, regnum, value) ==
    Bind(mars_ext_read(b, CTC_MARS_PAGE_REG), LAMBDA oldpage :
    Bind(mars_select_reg_space(oldpage.b, page), LAMBDA s :
    Then(phy_write(s.b, regnum, value), LAMBDA val :
    \* Recover to old page
    Bind(mars_select_reg_space(val.b, BitAnd(oldpage.ret, 2)), LAMBDA r :
    Ret(r.b, val.ret)))))

mars_page_ext_write(b, page, regnum, value) ==
    Bind(mars_ext_read(b, CTC_MARS_PAGE_REG), LAMBDA oldpage :
    Bind(mars_select_reg_space(oldpage.b, page), LAMBDA s :
    Then(mars_ext_write(s.b, regnum, value), LAMBDA val :
    \* Recover to old page
    Bind(mars_select_reg_space(val.b, BitAnd(oldpage.ret, 2)), LAMBDA r :
    Ret(r.b, val.ret)))))

----------------------------------------------------------------------------
(* <linux/ethtool.h>, <linux/phy.h>: capability bits (SUPPORTED_x and      *)
(* ADVERTISED_x are the same bits), autoneg, speed and duplex values.      *)

SUPPORTED_10baseT_Half == \h0001
SUPPORTED_10baseT_Full == \h0002
SUPPORTED_100baseT_Half == \h0004
SUPPORTED_100baseT_Full == \h0008
SUPPORTED_1000baseT_Half == \h0010
SUPPORTED_1000baseT_Full == \h0020
SUPPORTED_Autoneg == \h0040
SUPPORTED_Pause == \h2000
SUPPORTED_Asym_Pause == \h4000

ADVERTISE_PAUSE_CAP == \h0400
ADVERTISE_PAUSE_ASYM == \h0800
ADVERTISE_1000HALF == \h0100
ADVERTISE_1000FULL == \h0200

\* .features = PHY_GBIT_FEATURES
PHY_GBIT_FEATURES == \h02ff

AUTONEG_DISABLE == 0
AUTONEG_ENABLE == 1
DUPLEX_HALF == 0
DUPLEX_FULL == 1
SPEED_10 == 10
SPEED_100 == 100
SPEED_1000 == 1000
WAKE_MAGIC == \h20

\* if (v & m)
Test(v, m) == BitAnd(v, m) # 0

\* v |= m when cond
OrIf(cond, v, m) == IF cond THEN BitOr(v, m) ELSE v

\* ethtool_convert_link_mode_to_legacy_u32: the link modes the legacy word
\* holds (the model keeps modes 0..30)
LegacyU32(a) == BitAnd(a, \h7fffffff)

ethtool_adv_to_mii_adv_t(a) ==
    LET ADVERTISE_10HALF == \h0020
        ADVERTISE_10FULL == \h0040
        ADVERTISE_100HALF == \h0080
        ADVERTISE_100FULL == \h0100
    IN
    OrIf(Test(a, SUPPORTED_Asym_Pause), 
    OrIf(Test(a, SUPPORTED_Pause),
    OrIf(Test(a, SUPPORTED_100baseT_Full),
    OrIf(Test(a, SUPPORTED_100baseT_Half),
    OrIf(Test(a, SUPPORTED_10baseT_Full),
    OrIf(Test(a, SUPPORTED_10baseT_Half), 0, ADVERTISE_10HALF),
         ADVERTISE_10FULL), ADVERTISE_100HALF), ADVERTISE_100FULL),
         ADVERTISE_PAUSE_CAP), ADVERTISE_PAUSE_ASYM)

ethtool_adv_to_mii_ctrl1000_t(a) ==
    OrIf(Test(a, SUPPORTED_1000baseT_Full),
    OrIf(Test(a, SUPPORTED_1000baseT_Half), 0, ADVERTISE_1000HALF),
         ADVERTISE_1000FULL)

UsesCopper_always(b) == TRUE

UsesCopper(b) == b.pt = MARS_PORT_TYPE_UTP \/ b.pt = MARS_PORT_TYPE_COMBO
UsesFiber(b) == b.pt = MARS_PORT_TYPE_FIBER \/ b.pt = MARS_PORT_TYPE_COMBO

----------------------------------------------------------------------------
(* Forced setup, autonegotiation restart, advertisement, configure_aneg.   *)

\* without ctl &= BMCR_LOOPBACK | BMCR_ISOLATE | BMCR_PDOWN
ForcedCtl_nomask(ctl, dev) ==
    OrIf(dev.duplex = DUPLEX_FULL,
         IF dev.speed = SPEED_1000 THEN BitOr(ctl, \h0040)
         ELSE IF dev.speed = SPEED_100 THEN BitOr(ctl, \h2000)
         ELSE ctl, \h0100)

\* the BMCR value mars_setup_forced writes for the value ctl it read
ForcedCtl(ctl, dev) ==
    LET BMCR_SPEED1000 == \h0040
        BMCR_FULLDPLX == \h0100
        BMCR_PDOWN == \h0800
        BMCR_SPEED100 == \h2000
        BMCR_LOOPBACK == \h4000
        ctl0 == BitAnd(ctl, BitOr(BMCR_LOOPBACK, BitOr(BMCR_ISOLATE, BMCR_PDOWN)))
        ctl1 == IF dev.speed = SPEED_1000 THEN BitOr(ctl0, BMCR_SPEED1000)
                ELSE IF dev.speed = SPEED_100 THEN BitOr(ctl0, BMCR_SPEED100)
                ELSE ctl0
    IN  OrIf(dev.duplex = DUPLEX_FULL, ctl1, BMCR_FULLDPLX)

mars_setup_forced(b) ==
    Bind(IF UsesCopper(b)
         THEN Bind(mars_page_read(b, CTC_PHY_REG_SPACE, MII_BMCR), LAMBDA ctl :
              Bind(mars_page_write([ctl.b EXCEPT !.dev.pause = 0, !.dev.asym_pause = 0],
                                   CTC_PHY_REG_SPACE, MII_BMCR,
                                   ForcedCtl(ctl.ret, ctl.b.dev)), LAMBDA w :
              Ok(w.b)))
         ELSE Ok(b), LAMBDA u :
    IF UsesFiber(u.b)
    THEN Bind(mars_page_read(u.b, CTC_SDS_REG_SPACE, MII_BMCR), LAMBDA ctl :
         Bind(mars_page_write(ctl.b, CTC_SDS_REG_SPACE, MII_BMCR,
                              BitClear(ctl.ret, BMCR_ANENABLE)), LAMBDA w :
         Ok(w.b)))
    ELSE Ok(u.b))

mars_restart_aneg(b) ==
    Bind(IF UsesCopper(b)
         THEN Bind(mars_page_read(b, CTC_PHY_REG_SPACE, MII_BMCR), LAMBDA ctl :
              \* Don't isolate the PHY if we're negotiating
              Bind(mars_page_write(ctl.b, CTC_PHY_REG_SPACE, MII_BMCR,
                       BitClear(BitOr(ctl.ret, BitOr(BMCR_ANENABLE, BMCR_ANRESTART)),
                                BMCR_ISOLATE)), LAMBDA w :
              Ok(w.b)))
         ELSE Ok(b), LAMBDA u :
    IF UsesFiber(u.b)
    THEN Bind(mars_page_read(u.b, CTC_SDS_REG_SPACE, MII_BMCR), LAMBDA ctl :
         Bind(mars_page_write(ctl.b, CTC_SDS_REG_SPACE, MII_BMCR,
                              BitOr(ctl.ret, BMCR_ANENABLE)), LAMBDA w :
         Ok(w.b)))
    ELSE Ok(u.b))

\* the MII_ADVERTISE value for the value adv read and the advertised modes
AdvValue(adv, advertise) ==
    LET ADVERTISE_100BASE4 == \h0200
        ADVERTISE_ALL == \h01e0
    IN
    BitOr(BitClear(adv, BitOr(ADVERTISE_ALL, BitOr(ADVERTISE_100BASE4,
                        BitOr(ADVERTISE_PAUSE_CAP, ADVERTISE_PAUSE_ASYM)))),
          ethtool_adv_to_mii_adv_t(advertise))

\* the MII_CTRL1000 value for the value adv read
GigaValue(adv, dev, advertise) ==
    LET g0 == BitClear(adv, BitOr(ADVERTISE_1000FULL, ADVERTISE_1000HALF))
    IN  IF Test(dev.supported, BitOr(SUPPORTED_1000baseT_Half, SUPPORTED_1000baseT_Full))
        THEN BitOr(g0, ethtool_adv_to_mii_ctrl1000_t(advertise))
        ELSE g0

\* without the cut of phydev->advertising down to phydev->supported
mars_config_advert_unmasked(b) ==
    LET b0 == b
        advertise == LegacyU32(b0.dev.advertising)
    IN  \* Setup standard advertisement
    Bind(mars_page_read(b0, CTC_PHY_REG_SPACE, MII_ADVERTISE), LAMBDA adv :
    Bind(IF AdvValue(adv.ret, advertise) # adv.ret
         THEN mars_page_write(adv.b, CTC_PHY_REG_SPACE, MII_ADVERTISE,
                              AdvValue(adv.ret, advertise))
         ELSE Ok(adv.b), LAMBDA err :
    Bind(mars_page_read(err.b, CTC_PHY_REG_SPACE, MII_BMSR), LAMBDA bmsr :
    IF ~Test(bmsr.ret, BMSR_ESTATEN)
    THEN Ret(bmsr.b, IF AdvValue(adv.ret, advertise) # adv.ret THEN 1 ELSE 0)
    ELSE \* Configure gigabit if it's supported
    Bind(mars_page_read(bmsr.b, CTC_PHY_REG_SPACE, MII_CTRL1000), LAMBDA g :
    Bind(mars_page_write(g.b, CTC_PHY_REG_SPACE, MII_CTRL1000,
                         GigaValue(g.ret, g.b.dev, advertise)), LAMBDA gw :
    Ret(gw.b, IF \/ AdvValue(adv.ret, advertise) # adv.ret
                 \/ GigaValue(g.ret, g.b.dev, advertise) # g.ret
              THEN 1 ELSE 0))))))

\* returns changed (0 or 1) or a negative errno
mars_config_advert(b) ==
    LET \* Only allow advertising what this PHY supports
        b0 == [b EXCEPT !.dev.advertising = BitAnd(b.dev.advertising, b.dev.supported)]
        advertise == LegacyU32(b0.dev.advertising)
    IN  \* Setup standard advertisement
    Bind(mars_page_read(b0, CTC_PHY_REG_SPACE, MII_ADVERTISE), LAMBDA adv :
    Bind(IF AdvValue(adv.ret, advertise) # adv.ret
         THEN mars_page_write(adv.b, CTC_PHY_REG_SPACE, MII_ADVERTISE,
                              AdvValue(adv.ret, advertise))
         ELSE Ok(adv.b), LAMBDA err :
    Bind(mars_page_read(err.b, CTC_PHY_REG_SPACE, MII_BMSR), LAMBDA bmsr :
    IF ~Test(bmsr.ret, BMSR_ESTATEN)
    THEN Ret(bmsr.b, IF AdvValue(adv.ret, advertise) # adv.ret THEN 1 ELSE 0)
    ELSE \* Configure gigabit if it's supported
    Bind(mars_page_read(bmsr.b, CTC_PHY_REG_SPACE, MII_CTRL1000), LAMBDA g :
    Bind(mars_page_write(g.b, CTC_PHY_REG_SPACE, MII_CTRL1000,
                         GigaValue(g.ret, g.b.dev, advertise)), LAMBDA gw :
    Ret(gw.b, IF \/ AdvValue(adv.ret, advertise) # adv.ret
                 \/ GigaValue(g.ret, g.b.dev, advertise) # g.ret
              THEN 1 ELSE 0))))))

\* changed, after the look at BMCR that follows an unchanged advertisement
Changed(err, ctl) ==
    IF err = 0
    THEN IF ~Test(ctl, BMCR_ANENABLE) \/ Test(ctl, BMCR_ISOLATE) THEN 1 ELSE 0
    ELSE err

mars1s_config_aneg(b) ==
    Bind(IF UsesCopper(b)
         THEN Bind(IF b.dev.autoneg # AUTONEG_ENABLE
                   THEN mars_setup_forced(b) ELSE Ok(b), LAMBDA f :
              Bind(mars_config_advert(f.b), LAMBDA err :
              \* Advertisement hasn't changed, but maybe aneg was never on to
              \* begin with?  Or maybe phy was isolated?
              Bind(IF err.ret = 0
                   THEN mars_page_read(err.b, CTC_PHY_REG_SPACE, MII_BMCR)
                   ELSE Ok(err.b), LAMBDA ctl :
              \* Only restart aneg if we are advertising something different
              \* than we were before.
              Bind(IF Changed(err.ret, ctl.ret) > 0
                   THEN mars_restart_aneg(ctl.b) ELSE Ok(ctl.b), LAMBDA r :
              Ok(r.b)))))
         ELSE Ok(b), LAMBDA u :
    IF UsesFiber(u.b)
    THEN IF u.b.dev.autoneg # AUTONEG_ENABLE
         THEN mars_setup_forced(u.b)
         ELSE Bind(mars_restart_aneg(u.b), LAMBDA r : Ok(r.b))
    ELSE Ok(u.b))

----------------------------------------------------------------------------
(* Link polling and status.                                                *)

\* an error return out of one medium's poll
BindPoll(r, K(_)) ==
    IF r.ret < 0 THEN [b |-> r.b, ret |-> r.ret, done |-> TRUE] ELSE K(r)

PollMedium_falls_through(b, space, media) ==
    BindPoll(mars_page_read(b, space, MII_BMSR), LAMBDA fake :
    BindPoll(mars_page_read(fake.b, space, MII_BMSR), LAMBDA status :
    IF BitAnd(status.ret, BMSR_LSTATUS) = 0
    THEN [b |-> [status.b EXCEPT !.dev.link = 0], ret |-> 0, done |-> FALSE]
    ELSE BindPoll(mars_select_reg_space([status.b EXCEPT !.dev.link = 1], space),
                  LAMBDA r :
         [b |-> [r.b EXCEPT !.ps = media], ret |-> 0, done |-> FALSE])))

\* One medium of mars_update_link: the fake read, the real read, and on
\* link-up the select of the medium's space.  done: the function returned.
\* records the medium on link up without selecting its space
PollMedium_noselect(b, space, media) ==
    BindPoll(mars_page_read(b, space, MII_BMSR), LAMBDA fake :
    BindPoll(mars_page_read(fake.b, space, MII_BMSR), LAMBDA status :
    IF BitAnd(status.ret, BMSR_LSTATUS) = 0
    THEN [b |-> [status.b EXCEPT !.dev.link = 0], ret |-> 0, done |-> FALSE]
    ELSE [b |-> [status.b EXCEPT !.dev.link = 1, !.ps = media],
          ret |-> 0, done |-> TRUE]))

\* decides on the first of the two status reads
PollMedium_first_read(b, space, media) ==
    BindPoll(mars_page_read(b, space, MII_BMSR), LAMBDA fake :
    BindPoll(mars_page_read(fake.b, space, MII_BMSR), LAMBDA status :
    IF BitAnd(fake.ret, BMSR_LSTATUS) = 0
    THEN [b |-> [status.b EXCEPT !.dev.link = 0], ret |-> 0, done |-> FALSE]
    ELSE BindPoll(mars_select_reg_space([status.b EXCEPT !.dev.link = 1], space),
                  LAMBDA r :
         [b |-> [r.b EXCEPT !.ps = media], ret |-> 0, done |-> TRUE])))

PollMedium(b, space, media) ==
    \* Do a fake read
    BindPoll(mars_page_read(b, space, MII_BMSR), LAMBDA fake :
    \* Read link and autonegotiation status
    BindPoll(mars_page_read(fake.b, space, MII_BMSR), LAMBDA status :
    IF BitAnd(status.ret, BMSR_LSTATUS) = 0
    THEN [b |-> [status.b EXCEPT !.dev.link = 0], ret |-> 0, done |-> FALSE]
    ELSE BindPoll(mars_select_reg_space([status.b EXCEPT !.dev.link = 1], space),
                  LAMBDA r :
         [b |-> [r.b EXCEPT !.ps = media], ret |-> 0, done |-> TRUE])))

mars_update_link(b) ==
    Then(IF UsesCopper(b)
         THEN PollMedium(b, CTC_PHY_REG_SPACE, MARS_PORT_TYPE_UTP)
         ELSE [b |-> b, ret |-> 0, done |-> FALSE], LAMBDA u :
    IF u.done THEN Ret(u.b, u.ret)
    ELSE IF UsesFiber(u.b)
    THEN Then(PollMedium(u.b, CTC_SDS_REG_SPACE, MARS_PORT_TYPE_FIBER), LAMBDA f :
         Ret(f.b, f.ret))
    ELSE Ok(u.b))

\* what mars_update_link left behind, kept with the result of the
\* mars_read_status call it is part of
LinkPoll(u) ==
    [ret |-> u.ret, link |-> u.b.dev.link, ps |-> u.b.ps,
     space |-> Space(u.b.chip), n |-> u.b.n]

\* the space chosen by the port type instead of the Active Media
StatusPage_by_port_type(b) ==
    IF b.pt = MARS_PORT_TYPE_FIBER THEN CTC_SDS_REG_SPACE ELSE CTC_PHY_REG_SPACE

\* the space mars_read_status reads from
StatusPage(b) == IF b.ps # 0 THEN CTC_SDS_REG_SPACE ELSE CTC_PHY_REG_SPACE

\* duplex taken from bit 13 alone, also at 1000 Mb/s
Decode_bit13(b, val, lpa) ==
    [b EXCEPT !.dev.speed = IF Test(val, \h8000) THEN SPEED_1000
                            ELSE IF Test(val, \h4000) THEN SPEED_100
                            ELSE SPEED_10,
              !.dev.duplex = IF Test(val, \h2000) THEN DUPLEX_FULL ELSE DUPLEX_HALF]

\* speed and duplex of chip status value val, pause of link-partner value lpa
Decode(b, val, lpa) ==
    LET LPA_PAUSE_CAP == \h0400
        LPA_PAUSE_ASYM == \h0800
        speed == IF Test(val, \h8000) THEN SPEED_1000
                 ELSE IF Test(val, \h4000) THEN SPEED_100
                 ELSE SPEED_10
        duplex == IF Test(val, \h8000) THEN DUPLEX_FULL
                  ELSE IF Test(val, \h2000) THEN DUPLEX_FULL
                  ELSE DUPLEX_HALF
    IN  [b EXCEPT !.dev.speed = speed,
                  !.dev.duplex = duplex,
                  !.dev.pause = IF duplex = DUPLEX_FULL /\ Test(lpa, LPA_PAUSE_CAP)
                                THEN 1 ELSE 0,
                  !.dev.asym_pause = IF duplex = DUPLEX_FULL /\ Test(lpa, LPA_PAUSE_ASYM)
                                     THEN 1 ELSE 0]

mars_read_status(b) ==
    \* Update the link, but return if there was an error
    Then(mars_update_link(b), LAMBDA u :
    Then(Bind(u, LAMBDA u1 :
         Bind(mars_page_read([u1.b EXCEPT !.dev.speed = SPEED_10,
                                         !.dev.duplex = DUPLEX_HALF,
                                         !.dev.pause = 0, !.dev.asym_pause = 0],
                             StatusPage(u1.b), CTC_MARS_SSREG), LAMBDA val :
         Bind(mars_page_read(val.b, StatusPage(val.b), MII_LPA), LAMBDA lpa :
         Ok(Decode(lpa.b, val.ret, lpa.ret))))), LAMBDA r :
    [b |-> r.b, ret |-> r.ret, out |-> LinkPoll(u)]))

----------------------------------------------------------------------------
(* Wake-on-LAN configuration.                                              *)

mars_set_link_timer_2_6ms(b) ==
    mars_page_ext_write(b, CTC_SDS_REG_SPACE, LINK_TIMER_REG, 5)

WolWidthBits(val, width) ==
    IF width = MARS_WOL_WIDTH_84MS
    THEN BitClear(BitClear(val, CTC_MARS_WOL_WIDTH1), CTC_MARS_WOL_WIDTH2)
    ELSE IF width = MARS_WOL_WIDTH_168MS
    THEN BitClear(BitOr(val, CTC_MARS_WOL_WIDTH1), CTC_MARS_WOL_WIDTH2)
    ELSE IF width = MARS_WOL_WIDTH_336MS
    THEN BitOr(BitClear(val, CTC_MARS_WOL_WIDTH1), CTC_MARS_WOL_WIDTH2)
    ELSE IF width = MARS_WOL_WIDTH_672MS
    THEN BitOr(BitOr(val, CTC_MARS_WOL_WIDTH1), CTC_MARS_WOL_WIDTH2)
    ELSE val

WolCfgValue_sets_enable(val, wol_cfg) ==
    BitOr(val, CTC_MARS_WOL_EN)

\* a blind overwrite: the value built from the config alone
WolCfgValue_blind(val, wol_cfg) ==
    IF wol_cfg.enable # 0 THEN \h4f ELSE 0

\* the value mars_wol_en_cfg writes back for the value val it read
WolCfgValue(val, wol_cfg) ==
    IF wol_cfg.enable # 0
    THEN IF wol_cfg.type = MARS_WOL_TYPE_LEVEL
         THEN BitClear(BitClear(BitOr(val, CTC_MARS_WOL_EN), CTC_MARS_WOL_TYPE),
                       CTC_MARS_WOL_INTR_SEL)
         ELSE IF wol_cfg.type = MARS_WOL_TYPE_PULSE
         THEN WolWidthBits(BitOr(BitOr(BitOr(val, CTC_MARS_WOL_EN), CTC_MARS_WOL_TYPE),
                                 CTC_MARS_WOL_INTR_SEL), wol_cfg.width)
         ELSE BitOr(val, CTC_MARS_WOL_EN)
    ELSE BitClear(BitClear(val, CTC_MARS_WOL_EN), CTC_MARS_WOL_INTR_SEL)

mars_wol_en_cfg(b, wol_cfg) ==
    Bind(mars_ext_read(b, CTC_MARS_WOL_CFG_REG), LAMBDA val :
    Bind(mars_ext_write(val.b, CTC_MARS_WOL_CFG_REG, WolCfgValue(val.ret, wol_cfg)),
         LAMBDA w :
    Ok(w.b)))

mars_get_wol_nocheck(b) ==
    Then(mars_ext_read(b, CTC_MARS_WOL_CFG_REG), LAMBDA val :
    [b |-> val.b, ret |-> 0,
     out |-> [supported |-> WAKE_MAGIC,
              wolopts |-> OrIf(Test(val.ret % 65536, CTC_MARS_WOL_EN), 0, WAKE_MAGIC)]])

\* void; out is the struct ethtool_wolinfo it fills in
mars_get_wol(b) ==
    Then(mars_ext_read(b, CTC_MARS_WOL_CFG_REG), LAMBDA val :
    [b |-> val.b, ret |-> 0,
     out |-> [supported |-> WAKE_MAGIC,
              wolopts |-> IF val.ret < 0 THEN 0
                          ELSE OrIf(Test(val.ret, CTC_MARS_WOL_EN), 0, WAKE_MAGIC)]])

\* the address words written low half first
MacWord_swapped(hi, lo) == BitOr(lo * 256, hi)

\* the magic-packet address word for two bytes of dev_addr
MacWord(hi, lo) == BitOr(hi * 256, lo)

(* mars_ack_interrupt: reading the interrupt event register acknowledges.  *)
mars_ack_interrupt(b) ==
    LET CTC_PHY_IEVENT == \h13
    IN  Bind(mars_page_read(b, CTC_PHY_REG_SPACE, CTC_PHY_IEVENT),
             LAMBDA err : Ok(err.b))

(* mars_config_intr: the interrupt mask register is written whole, with    *)
(* the initial mask when interrupts are enabled and with zero otherwise.   *)
(* phydev->interrupts is only compared for equality; PHY_INTERRUPT_ENABLED *)
(* stands for the kernel's flag value.                                      *)
mars_config_intr(b) ==
    LET CTC_PHY_IMASK == \h12
        CTC_PHY_IMASK_INIT == \h6c00
        CTC_PHY_IMASK_CLEAR == \h0000
        PHY_INTERRUPT_ENABLED == 1
    IN  IF b.dev.interrupts = PHY_INTERRUPT_ENABLED
        THEN mars_page_write(b, CTC_PHY_REG_SPACE, CTC_PHY_IMASK, CTC_PHY_IMASK_INIT)
        ELSE mars_page_write(b, CTC_PHY_REG_SPACE, CTC_PHY_IMASK, CTC_PHY_IMASK_CLEAR)

\* undoes its register writes when it fails
mars_set_wol_rollback(b, wolopts) ==
    LET r ==
            LET CTC_PHY_GLB_DISABLE == 0
                CTC_PHY_GLB_ENABLE == 1
                MARS_WOL_TYPE_MAX == 2
                MARS_WOL_WIDTH_MAX == 4
                a == b.dev.dev_addr
            IN
            IF Test(wolopts, WAKE_MAGIC)
            THEN \* Enable the WOL interrupt
                 Then(mars_page_read(b, CTC_PHY_REG_SPACE, CTC_MARS_INTR_REG), LAMBDA val :
                 Bind(mars_page_write(val.b, CTC_PHY_REG_SPACE, CTC_MARS_INTR_REG,
                                      BitOr(val.ret % 65536, CTC_MARS_WOL_INTR)), LAMBDA w :
                 \* Set the WOL config
                 Bind(mars_wol_en_cfg(w.b, [enable |-> CTC_PHY_GLB_ENABLE,
                                            type |-> MARS_WOL_TYPE_PULSE,
                                            width |-> MARS_WOL_WIDTH_672MS]), LAMBDA c :
                 \* Store the device address for the magic packet
                 Bind(mars_ext_write(c.b, CTC_MARS_MAGIC_PACKET_MAC_ADDR2,
                                     MacWord(a[1], a[2])), LAMBDA m2 :
                 Bind(mars_ext_write(m2.b, CTC_MARS_MAGIC_PACKET_MAC_ADDR1,
                                     MacWord(a[3], a[4])), LAMBDA m1 :
                 Bind(mars_ext_write(m1.b, CTC_MARS_MAGIC_PACKET_MAC_ADDR0,
                                     MacWord(a[5], a[6])), LAMBDA m0 :
                 Ok(m0.b)))))))
            ELSE Bind(mars_wol_en_cfg(b, [enable |-> CTC_PHY_GLB_DISABLE,
                                          type |-> MARS_WOL_TYPE_MAX,
                                          width |-> MARS_WOL_WIDTH_MAX]), LAMBDA c :
                 Ok(c.b))
    IN  IF r.ret < 0 THEN [r EXCEPT !.b.chip = b.chip] ELSE r

(* mars_set_wol of the earlier revision: the page register is saved and   *)
(* PRIMARY selected by hand; every error return after that leaves without  *)
(* recovering the page, and the recovery masks the saved page with 0x1.    *)
mars_set_wol_rev1(b, wolopts) ==
    LET CTC_PHY_GLB_DISABLE == 0
        CTC_PHY_GLB_ENABLE == 1
        MARS_WOL_TYPE_MAX == 2
        MARS_WOL_WIDTH_MAX == 4
        a == b.dev.dev_addr
        \* Recover to old page
        Recover(r, oldpage) ==
            Bind(mars_select_reg_space(r.b, BitAnd(oldpage, \h1)), LAMBDA s :
            Ok(s.b))
    IN
    Bind(mars_ext_read(b, CTC_MARS_PAGE_REG), LAMBDA oldpage :
    \* Switch to phy page
    Bind(mars_select_reg_space(oldpage.b, CTC_PHY_REG_SPACE), LAMBDA sel :
    IF Test(wolopts, WAKE_MAGIC)
    THEN \* Enable the WOL interrupt
         Then(phy_read(sel.b, CTC_MARS_INTR_REG), LAMBDA val :
         Bind(phy_write(val.b, CTC_MARS_INTR_REG,
                        BitOr(val.ret % 65536, CTC_MARS_WOL_INTR)), LAMBDA w :
         \* Set the WOL config
         Bind(mars_wol_en_cfg(w.b, [enable |-> CTC_PHY_GLB_ENABLE,
                                    type |-> MARS_WOL_TYPE_PULSE,
                                    width |-> MARS_WOL_WIDTH_672MS]), LAMBDA c :
         \* Store the device address for the magic packet
         Bind(mars_ext_write(c.b, CTC_MARS_MAGIC_PACKET_MAC_ADDR2,
                             MacWord(a[1], a[2])), LAMBDA m2 :
         Bind(mars_ext_write(m2.b, CTC_MARS_MAGIC_PACKET_MAC_ADDR1,
                             MacWord(a[3], a[4])), LAMBDA m1 :
         Bind(mars_ext_write(m1.b, CTC_MARS_MAGIC_PACKET_MAC_ADDR0,
                             MacWord(a[5], a[6])), LAMBDA m0 :
         Recover(m0, oldpage.ret)))))))
    ELSE Bind(mars_wol_en_cfg(sel.b, [enable |-> CTC_PHY_GLB_DISABLE,
                                      type |-> MARS_WOL_TYPE_MAX,
                                      width |-> MARS_WOL_WIDTH_MAX]), LAMBDA c :
         Recover(c, oldpage.ret))))

\* wolopts is wol->wolopts.  The value of mars_page_read is used unchecked:
\* val |= CTC_MARS_WOL_INTR on the int it returned, written as a u16
mars_set_wol(b, wolopts) ==
    LET CTC_PHY_GLB_DISABLE == 0
        CTC_PHY_GLB_ENABLE == 1
        MARS_WOL_TYPE_MAX == 2
        MARS_WOL_WIDTH_MAX == 4
        a == b.dev.dev_addr
    IN
    IF Test(wolopts, WAKE_MAGIC)
    THEN \* Enable the WOL interrupt
         Then(mars_page_read(b, CTC_PHY_REG_SPACE, CTC_MARS_INTR_REG), LAMBDA val :
         Bind(mars_page_write(val.b, CTC_PHY_REG_SPACE, CTC_MARS_INTR_REG,
                              BitOr(val.ret % 65536, CTC_MARS_WOL_INTR)), LAMBDA w :
         \* Set the WOL config
         Bind(mars_wol_en_cfg(w.b, [enable |-> CTC_PHY_GLB_ENABLE,
                                    type |-> MARS_WOL_TYPE_PULSE,
                                    width |-> MARS_WOL_WIDTH_672MS]), LAMBDA c :
         \* Store the device address for the magic packet
         Bind(mars_ext_write(c.b, CTC_MARS_MAGIC_PACKET_MAC_ADDR2,
                             MacWord(a[1], a[2])), LAMBDA m2 :
         Bind(mars_ext_write(m2.b, CTC_MARS_MAGIC_PACKET_MAC_ADDR1,
                             MacWord(a[3], a[4])), LAMBDA m1 :
         Bind(mars_ext_write(m1.b, CTC_MARS_MAGIC_PACKET_MAC_ADDR0,
                             MacWord(a[5], a[6])), LAMBDA m0 :
         Ok(m0.b)))))))
    ELSE Bind(mars_wol_en_cfg(b, [enable |-> CTC_PHY_GLB_DISABLE,
                                  type |-> MARS_WOL_TYPE_MAX,
                                  width |-> MARS_WOL_WIDTH_MAX]), LAMBDA c :
         Ok(c.b))

----------------------------------------------------------------------------
(* Port-type detection and initialisation.                                 *)

PortTypeOf_nomask(v) ==
    IF v = 0 \/ v = 3 THEN MARS_PORT_TYPE_UTP
    ELSE IF v = 1 \/ v = 4 \/ v = 5 THEN MARS_PORT_TYPE_FIBER
    ELSE MARS_PORT_TYPE_COMBO

\* the port type of a configuration value
PortTypeOf(v) ==
    IF BitAnd(v, 7) = 0 \/ BitAnd(v, 7) = 3 THEN MARS_PORT_TYPE_UTP
    ELSE IF BitAnd(v, 7) = 1 \/ BitAnd(v, 7) = 4 \/ BitAnd(v, 7) = 5
    THEN MARS_PORT_TYPE_FIBER
    ELSE MARS_PORT_TYPE_COMBO

mars_get_port_type(b) ==
    Bind(mars_ext_read(b, CTC_MARS_CHIP_CFG_REG), LAMBDA val :
    Ok([val.b EXCEPT !.pt = PortTypeOf(val.ret),
                     !.ps = IF PortTypeOf(val.ret) = MARS_PORT_TYPE_COMBO
                            THEN val.b.ps ELSE PortTypeOf(val.ret)]))

\* the features mars_config_init derives from BMSR value val and, when
\* BMSR_ESTATEN is set, ESTATUS value est
InitFeatures(val, est) ==
    LET SUPPORTED_TP == \h0080
        SUPPORTED_AUI == \h0100
        SUPPORTED_MII == \h0200
        SUPPORTED_FIBRE == \h0400
        SUPPORTED_BNC == \h0800
        BMSR_ANEGCAPABLE == \h0008
        BMSR_10HALF == \h0800
        BMSR_10FULL == \h1000
        BMSR_100HALF == \h2000
        BMSR_100FULL == \h4000
        ESTATUS_1000_THALF == \h1000
        ESTATUS_1000_TFULL == \h2000
        base == BitOr(SUPPORTED_TP, BitOr(SUPPORTED_MII, BitOr(SUPPORTED_AUI,
                BitOr(SUPPORTED_FIBRE, BitOr(SUPPORTED_BNC,
                BitOr(SUPPORTED_Pause, SUPPORTED_Asym_Pause))))))
        f1 == OrIf(Test(val, BMSR_ANEGCAPABLE), base, SUPPORTED_Autoneg)
        f2 == OrIf(Test(val, BMSR_100FULL), f1, SUPPORTED_100baseT_Full)
        f3 == OrIf(Test(val, BMSR_100HALF), f2, SUPPORTED_100baseT_Half)
        f4 == OrIf(Test(val, BMSR_10FULL), f3, SUPPORTED_10baseT_Full)
        f5 == OrIf(Test(val, BMSR_10HALF), f4, SUPPORTED_10baseT_Half)
        f6 == OrIf(Test(val, BMSR_ESTATEN) /\ Test(est, ESTATUS_1000_TFULL),
                   f5, SUPPORTED_1000baseT_Full)
    IN  OrIf(Test(val, BMSR_ESTATEN) /\ Test(est, ESTATUS_1000_THALF),
             f6, SUPPORTED_1000baseT_Half)

\* phydev->supported and phydev->advertising cut down to features
\* (the LINUX_VERSION_CODE >= 5.0.0 branch)
WithFeatures(b, features) ==
    [b EXCEPT !.dev.supported = BitAnd(b.dev.supported, features),
              !.dev.advertising = BitAnd(BitAnd(b.dev.supported, features), features)]

\* built without CTC_MARS_WOL_ENABLE
mars_config_init(b) ==
    Then(mars_set_link_timer_2_6ms(b), LAMBDA t :
    \* Do we support autonegotiation?
    Bind(mars_page_read(t.b, CTC_PHY_REG_SPACE, MII_BMSR), LAMBDA val :
    Bind(IF Test(val.ret, BMSR_ESTATEN)
         THEN mars_page_read(val.b, CTC_PHY_REG_SPACE, MII_ESTATUS)
         ELSE Ok(val.b), LAMBDA est :
    Then(mars_get_port_type(WithFeatures(est.b, InitFeatures(val.ret, est.ret))),
         LAMBDA g :
    Ok(g.b)))))

----------------------------------------------------------------------------
(* Power-on contents of a chip and of its struct phy_device.               *)

\* strap: chip configuration register; page: page register; wol: WOL config
\* register; cu, fi: link-status bit of the copper and of the fibre BMSR
MkChip(strap, page, wol, cu, fi) ==
    [latch |-> 0,
     stale |-> {},
     ext |-> [k \in ({CTC_PHY_REG_SPACE} \X CommonExt) \cup (Spaces \X BankedExt) |->
                IF k[2] = CTC_MARS_PAGE_REG THEN page
                ELSE IF k[2] = CTC_MARS_CHIP_CFG_REG THEN strap
                ELSE IF k[2] = CTC_MARS_WOL_CFG_REG THEN wol
                ELSE 0],
     mii |-> [k \in Spaces \X MiiRegs |->
                IF k[2] = MII_BMCR THEN \h1140
                ELSE IF k[2] = MII_BMSR
                     THEN \h7949 + (IF k[1] = CTC_PHY_REG_SPACE THEN cu ELSE fi) * BMSR_LSTATUS
                ELSE IF k[2] = MII_ADVERTISE THEN \h01e1
                ELSE IF k[2] = MII_CTRL1000 THEN \h0300
                ELSE IF k[2] = MII_ESTATUS THEN \h3000
                ELSE 0]]

Devs == {1, 2}

\* struct phy_device after phy_probe: supported = PHY_GBIT_FEATURES plus the
\* pause bits, everything supported advertised, autonegotiation on
NewDev == [autoneg |-> AUTONEG_ENABLE, speed |-> 0, duplex |-> 0, pause |-> 0,
           asym_pause |-> 0, link |-> 0,
           supported |-> BitOr(PHY_GBIT_FEATURES, BitOr(SUPPORTED_Pause, SUPPORTED_Asym_Pause)),
           advertising |-> BitOr(PHY_GBIT_FEATURES, BitOr(SUPPORTED_Pause, SUPPORTED_Asym_Pause)),
           interrupts |-> 0,
           dev_addr |-> <<\haa, \hbb, \hcc, \hdd, \hee, \hff>>]

NoCall == [name |-> "none", dev |-> 0, args |-> <<>>, ret |-> 0, out |-> <<>>,
           log |-> <<>>, pre |-> MkChip(0, 0, 0, 0, 0), predev |-> NewDev,
           prept |-> 0, preps |-> 0]

\* the context of a call on device d under failure plan fp
Ctx(d, fp) == Bus(chip[d], fp, phydev[d], g_port_type, g_port_status)

\* what a call hands back besides its return value (mars_get_wol: the
\* wolinfo; mars_read_status: what its link poll found)
OutOf(r) == IF "out" \in DOMAIN r THEN r.out ELSE <<>>

Faulty(log) == \E i \in 1..Len(log) : log[i].ret < 0

\* a call on device d, whose chip was c when the call began, that ended as
\* r = [b, ret]
CallOn(d, c, name, args, r) ==
    /\ chip' = [chip EXCEPT ![d] = r.b.chip]
    /\ phydev' = [phydev EXCEPT ![d] = r.b.dev]
    /\ g_port_type' = r.b.pt
    /\ g_port_status' = r.b.ps
    /\ hist' = Append(hist, [name |-> name, dev |-> d, args |-> args, ret |-> r.ret,
                             faulty |-> Faulty(r.b.log)])
    /\ last' = [name |-> name, dev |-> d, args |-> args, ret |-> r.ret,
                out |-> OutOf(r), log |-> r.b.log, pre |-> c,
                predev |-> phydev[d],
                prept |-> g_port_type, preps |-> g_port_status]
    /\ UNCHANGED thr

Call(d, name, args, r) == CallOn(d, chip[d], name, args, r)

----------------------------------------------------------------------------
(* SpecAccess: the register-access helpers, each applied once to a chip    *)
(* whose page register, latch and WOL register are drawn from small sets,  *)
(* under every pattern of at most two failing bus transactions.            *)

\* a helper issues at most this many bus transactions
MaxTxAccess == 8

AccPages == {0, 2, 1, 3}
AccExtRegs == {CTC_MARS_PAGE_REG, CTC_MARS_WOL_CFG_REG, LINK_TIMER_REG}
AccMiiRegs == {MII_BMCR, CTC_MARS_SSREG, LATCH_REG, DATA_REG}
AccVals == {0, 2, \hffed}

AccInit ==
    /\ \E page \in AccPages, latch \in {0, CTC_MARS_WOL_CFG_REG}, wol \in {0, \hffff} :
         chip = [d \in Devs |->
                    IF d = 1 THEN [MkChip(0, page, wol, 1, 0) EXCEPT !.latch = latch]
                    ELSE MkChip(0, 0, 0, 0, 0)]
    /\ phydev = [d \in Devs |-> NewDev]
    /\ g_port_type = 0
    /\ g_port_status = 0
    /\ hist = <<>>
    /\ last = NoCall
    /\ thr = <<>>

AccExtRead ==
    \E regnum \in AccExtRegs, fp \in FailPlans(MaxTxAccess) :
        /\ hist = <<>>
        /\ Call(1, "mars_ext_read", <<regnum>>, mars_ext_read(Ctx(1, fp), regnum))

AccExtWrite ==
    \E regnum \in AccExtRegs, val \in AccVals, fp \in FailPlans(MaxTxAccess) :
        /\ hist = <<>>
        /\ Call(1, "mars_ext_write", <<regnum, val>>,
                mars_ext_write(Ctx(1, fp), regnum, val))

AccSelect ==
    \E space \in Spaces, fp \in FailPlans(MaxTxAccess) :
        /\ hist = <<>>
        /\ Call(1, "mars_select_reg_space", <<space>>,
                mars_select_reg_space(Ctx(1, fp), space))

AccPageRead ==
    \E page \in Spaces, regnum \in AccMiiRegs, fp \in FailPlans(MaxTxAccess) :
        /\ hist = <<>>
        /\ Call(1, "mars_page_read", <<page, regnum>>,
                mars_page_read(Ctx(1, fp), page, regnum))

AccPageWrite ==
    \E page \in Spaces, regnum \in AccMiiRegs, val \in AccVals,
       fp \in FailPlans(MaxTxAccess) :
        /\ hist = <<>>
        /\ Call(1, "mars_page_write", <<page, regnum, val>>,
                mars_page_write(Ctx(1, fp), page, regnum, val))

AccPageExtWrite ==
    \E page \in Spaces, regnum \in AccExtRegs, val \in AccVals,
       fp \in FailPlans(MaxTxAccess) :
        /\ hist = <<>>
        /\ Call(1, "mars_page_ext_write", <<page, regnum, val>>,
                mars_page_ext_write(Ctx(1, fp), page, regnum, val))

\* a second mars_select_reg_space straight after one that met no bus failure
AccSelectAgain ==
    \E space \in Spaces, fp \in FailPlans1(2) :
        /\ Len(hist) = 1
        /\ last.name = "mars_select_reg_space"
        /\ ~Faulty(last.log)
        /\ Call(1, "mars_select_reg_space", <<space>>,
                mars_select_reg_space(Ctx(1, fp), space))

SpecAccess ==
    AccInit /\
    [][\/ AccExtRead
        \/ AccExtWrite
        \/ AccSelect
        \/ AccPageRead
        \/ AccPageWrite
        \/ AccPageExtWrite
        \/ AccSelectAgain]_vars

----------------------------------------------------------------------------
(* Spec: one device, initialisation and configure_aneg.  The host          *)
(* framework calls mars_config_init first and the other entry points once  *)
(* initialisation has returned 0; before a call it sets the phy_device     *)
(* fields the call reads.                                                  *)

\* calls per behaviour
MaxOps == 2
\* a failing bus transaction is among the first MaxFailAt of its call
MaxFailAt == 24
\* calls per behaviour in which a bus transaction fails
MaxFaultyCalls == 1

Straps == 0..7
\* what the host may ask to advertise: everything, 100baseT/Full alone, and
\* a mode the PHY does not support (10000baseT/Full)
AdvChoices == {BitOr(PHY_GBIT_FEATURES, BitOr(SUPPORTED_Pause, SUPPORTED_Asym_Pause)),
               BitOr(SUPPORTED_100baseT_Full, SUPPORTED_Autoneg),
               BitOr(SUPPORTED_100baseT_Full, \h1000)}
\* the forced speed/duplex pairs the host may ask for
ForcedChoices == {<<SPEED_10, DUPLEX_HALF>>, <<SPEED_100, DUPLEX_FULL>>,
                  <<SPEED_1000, DUPLEX_FULL>>}

Initialised(d) ==
    \E i \in 1..Len(hist) :
        hist[i].name = "mars_config_init" /\ hist[i].dev = d /\ hist[i].ret = 0

\* the failure plans a further call may run under
Plans ==
    IF Cardinality({i \in 1..Len(hist) : hist[i].faulty}) < MaxFaultyCalls
    THEN FailPlans1(MaxFailAt) ELSE {NoFail}

DrvInit ==
    /\ \E strap \in Straps, page \in {0, 2} :
         chip = [d \in Devs |->
                    IF d = 1 THEN MkChip(strap, page, 0, 1, 0)
                    ELSE MkChip(0, 0, 0, 0, 0)]
    /\ phydev = [d \in Devs |-> NewDev]
    /\ g_port_type = 0
    /\ g_port_status = 0
    /\ hist = <<>>
    /\ last = NoCall
    /\ thr = <<>>

ConfigInit(d) ==
    \E fp \in Plans :
        /\ Len(hist) < MaxOps
        /\ Call(d, "mars_config_init", <<>>, mars_config_init(Ctx(d, fp)))

\* the host's request: autonegotiation with an advertisement, or a forced
\* speed and duplex
ConfigAneg(d) ==
    \E fp \in Plans :
        /\ Len(hist) < MaxOps
        /\ Initialised(d)
        /\ \/ \E adv \in AdvChoices :
                LET b == [Ctx(d, fp) EXCEPT !.dev.autoneg = AUTONEG_ENABLE,
                                            !.dev.advertising = adv]
                IN  Call(d, "mars1s_config_aneg", <<AUTONEG_ENABLE, adv>>,
                         mars1s_config_aneg(b))
           \/ \E f \in ForcedChoices :
                LET b == [Ctx(d, fp) EXCEPT !.dev.autoneg = AUTONEG_DISABLE,
                                            !.dev.speed = f[1], !.dev.duplex = f[2]]
                IN  Call(d, "mars1s_config_aneg", <<AUTONEG_DISABLE, f[1], f[2]>>,
                         mars1s_config_aneg(b))

\* the cable state the poll meets: the link-status bit of the copper and of
\* the fibre BMSR
SetLink(c, cu, fi) ==
    [c EXCEPT !.mii[<<CTC_PHY_REG_SPACE, MII_BMSR>>] = \h7949 + cu * BMSR_LSTATUS,
              !.mii[<<CTC_SDS_REG_SPACE, MII_BMSR>>] = \h7949 + fi * BMSR_LSTATUS]

LinkUp(c, space) == c.mii[<<space, MII_BMSR>>] % (2 * BMSR_LSTATUS) >= BMSR_LSTATUS

\* a status poll of an initialised device (SpecLink starts from one)
ReadStatus(d) ==
    \E fp \in Plans, cu \in {0, 1}, fi \in {0, 1} :
        /\ Len(hist) < MaxOps
        /\ CallOn(d, SetLink(chip[d], cu, fi), "mars_read_status", <<>>,
                  mars_read_status(Bus(SetLink(chip[d], cu, fi), fp, phydev[d],
                                       g_port_type, g_port_status)))

Spec ==
    DrvInit /\
    [][\/ ConfigInit(1)
        \/ ConfigAneg(1)]_vars

----------------------------------------------------------------------------
(* SpecLink: one device that mars_config_init has initialised, polled and  *)
(* initialised again, for every combination of copper and fibre link.  The *)
(* configuration register also takes one value of each class with bits    *)
(* set above the three that classify.                                      *)

\* device 1 as mars_config_init leaves it at power-on when the bus does not
\* fail
Probed(strap) ==
    mars_config_init(Bus(MkChip(strap, 0, 0, 0, 0), NoFail, NewDev, 0, 0)).b

LinkInit ==
    /\ \E strap \in Straps \cup {\ha5fa, \ha5fb, \ha5fd} :
         /\ chip = [d \in Devs |->
                      IF d = 1 THEN Probed(strap).chip
                      ELSE MkChip(0, 0, 0, 0, 0)]
         /\ phydev = [d \in Devs |-> IF d = 1 THEN Probed(strap).dev ELSE NewDev]
         /\ g_port_type = Probed(strap).pt
         /\ g_port_status = Probed(strap).ps
    /\ hist = <<>>
    /\ last = NoCall
    /\ thr = <<>>

SpecLink ==
    LinkInit /\
    [][\/ ConfigInit(1)
        \/ ReadStatus(1)]_vars

----------------------------------------------------------------------------
(* SpecMulti: two devices bound to the driver, whose configuration        *)
(* registers classify to different port types, on a bus that does not     *)
(* fail.  g_port_type and g_port_status are the driver's file-scope        *)
(* variables: one of each, whatever the number of devices.                 *)

\* calls per behaviour
MaxMultiOps == 3

MultiInit ==
    /\ \E s1 \in {0, 1, 2}, s2 \in {0, 1, 2} :
         /\ PortTypeOf(s1) # PortTypeOf(s2)
         /\ chip = [d \in Devs |-> MkChip(IF d = 1 THEN s1 ELSE s2, 0, 0, 0, 0)]
    /\ phydev = [d \in Devs |-> NewDev]
    /\ g_port_type = 0
    /\ g_port_status = 0
    /\ hist = <<>>
    /\ last = NoCall
    /\ thr = <<>>

MultiConfigInit(d) ==
    /\ Len(hist) < MaxMultiOps
    /\ Call(d, "mars_config_init", <<>>, mars_config_init(Ctx(d, NoFail)))

MultiConfigAneg(d) ==
    /\ Len(hist) < MaxMultiOps
    /\ Initialised(d)
    /\ \E a \in {AUTONEG_ENABLE, AUTONEG_DISABLE} :
         Call(d, "mars1s_config_aneg", <<a, SPEED_100, DUPLEX_FULL>>,
              mars1s_config_aneg([Ctx(d, NoFail) EXCEPT !.dev.autoneg = a,
                                                        !.dev.speed = SPEED_100,
                                                        !.dev.duplex = DUPLEX_FULL]))

MultiReadStatus(d) ==
    \E cu \in {0, 1}, fi \in {0, 1} :
        /\ Len(hist) < MaxMultiOps
        /\ Initialised(d)
        /\ CallOn(d, SetLink(chip[d], cu, fi), "mars_read_status", <<>>,
                  mars_read_status(Bus(SetLink(chip[d], cu, fi), NoFail, phydev[d],
                                       g_port_type, g_port_status)))

SpecMulti ==
    MultiInit /\
    [][\/ MultiConfigInit(1)
        \/ MultiConfigInit(2)
        \/ MultiConfigAneg(1)
        \/ MultiConfigAneg(2)
        \/ MultiReadStatus(1)
        \/ MultiReadStatus(2)]_vars

----------------------------------------------------------------------------
(* SpecConc: two driver operations in progress on device 1 at the same     *)
(* time.  Each is at an indirect access; phy_write and phy_read are atomic *)
(* (the bus layer locks each transaction), and the driver takes no lock    *)
(* between the latch write and the data access, so the transactions of the *)
(* two accesses may occur in any order.                                    *)

Threads == {1, 2}

\* indirect accesses per thread
MaxAccesses == 1

\* the indirect accesses the driver's operations make: mars_get_wol and
\* mars_wol_en_cfg read 0xa00a, mars_get_port_type reads 0xa001, the page
\* helpers read 0xa000, mars_select_reg_space writes 0xa000
ConcAccesses ==
    {[op |-> "r", reg |-> r, val |-> 0] :
        r \in {CTC_MARS_WOL_CFG_REG, CTC_MARS_CHIP_CFG_REG, CTC_MARS_PAGE_REG}}
    \cup {[op |-> "w", reg |-> CTC_MARS_PAGE_REG, val |-> v] : v \in {0, 2}}

IdleThread == [pc |-> "idle", left |-> MaxAccesses,
               acc |-> [op |-> "r", reg |-> 0, val |-> 0],
               ret |-> 0, held |-> 0, completed |-> FALSE]

ConcInit ==
    /\ \E strap \in {1, 2}, page \in {0, 2}, wol \in {0, \h4f} :
         chip = [d \in Devs |->
                    IF d = 1 THEN MkChip(strap, page, wol, 1, 0)
                    ELSE MkChip(0, 0, 0, 0, 0)]
    /\ phydev = [d \in Devs |-> NewDev]
    /\ g_port_type = 0
    /\ g_port_status = 0
    /\ hist = <<>>
    /\ last = NoCall
    /\ thr = [th |-> [t \in Threads |-> IdleThread], bus |-> <<>>]

\* thread t begins mars_ext_read or mars_ext_write: the write of the
\* register number to the latch
ConcLatch(t) ==
    \E a \in ConcAccesses :
        /\ thr.th[t].pc = "idle"
        /\ thr.th[t].left > 0
        /\ chip' = [chip EXCEPT ![1] = phy_write(Ctx(1, NoFail), LATCH_REG, a.reg).b.chip]
        /\ thr' = [th |-> [thr.th EXCEPT ![t] = [@ EXCEPT !.pc = "data", !.acc = a,
                                                         !.completed = FALSE]],
                   bus |-> Append(thr.bus, [t |-> t, reg |-> LATCH_REG])]
        /\ UNCHANGED <<phydev, g_port_type, g_port_status, hist, last>>

\* thread t finishes its access: the read or write of the data register.
\* held: what the register it latched holds at that moment.
ConcData(t) ==
    /\ thr.th[t].pc = "data"
    /\ chip' = [chip EXCEPT ![1] =
                  IF thr.th[t].acc.op = "r" THEN chip[1]
                  ELSE phy_write(Ctx(1, NoFail), DATA_REG, thr.th[t].acc.val).b.chip]
    /\ thr' = [th |-> [thr.th EXCEPT ![t] =
                         [@ EXCEPT !.pc = "idle",
                                   !.left = @ - 1,
                                   !.ret = IF thr.th[t].acc.op = "r"
                                           THEN phy_read(Ctx(1, NoFail), DATA_REG).ret
                                           ELSE 0,
                                   !.held = chip[1].ext[ExtKey(chip[1], thr.th[t].acc.reg)],
                                   !.completed = TRUE]],
               bus |-> Append(thr.bus, [t |-> t, reg |-> DATA_REG])]
    /\ UNCHANGED <<phydev, g_port_type, g_port_status, hist, last>>

SpecConc ==
    ConcInit /\
    [][\/ ConcLatch(1)
        \/ ConcLatch(2)
        \/ ConcData(1)
        \/ ConcData(2)]_vars

----------------------------------------------------------------------------
(* SpecWol: mars_wol_en_cfg and mars_get_wol on one device, for a set of   *)
(* prior contents of WOL configuration register 0xa00a that covers every   *)
(* combination of the enable bit with the other WOL bits clear or set and  *)
(* with the unrelated bits clear or set.                                   *)

\* calls per behaviour
MaxWolOps == 2
\* a failing bus transaction is among the first MaxWolFailAt of its call
MaxWolFailAt == 4

WolVals == {0, CTC_MARS_WOL_EN, \h47, \h4f, \hffb0, \hffb8, \hfff7, \hffff}

WolCfgs ==
    {[enable |-> 0, type |-> MARS_WOL_TYPE_LEVEL, width |-> MARS_WOL_WIDTH_84MS],
     [enable |-> 0, type |-> MARS_WOL_TYPE_PULSE, width |-> MARS_WOL_WIDTH_672MS],
     [enable |-> 1, type |-> MARS_WOL_TYPE_LEVEL, width |-> MARS_WOL_WIDTH_84MS],
     [enable |-> 1, type |-> MARS_WOL_TYPE_PULSE, width |-> MARS_WOL_WIDTH_168MS],
     [enable |-> 1, type |-> MARS_WOL_TYPE_PULSE, width |-> MARS_WOL_WIDTH_336MS],
     [enable |-> 1, type |-> MARS_WOL_TYPE_PULSE, width |-> MARS_WOL_WIDTH_672MS]}

WolInit ==
    /\ \E wol \in WolVals :
         chip = [d \in Devs |->
                    IF d = 1 THEN MkChip(0, 0, wol, 1, 0)
                    ELSE MkChip(0, 0, 0, 0, 0)]
    /\ phydev = [d \in Devs |-> NewDev]
    /\ g_port_type = 0
    /\ g_port_status = 0
    /\ hist = <<>>
    /\ last = NoCall
    /\ thr = <<>>

WolEnCfg ==
    \E wol_cfg \in WolCfgs, fp \in FailPlans1(MaxWolFailAt) :
        /\ Len(hist) < MaxWolOps
        /\ Call(1, "mars_wol_en_cfg", <<wol_cfg>>, mars_wol_en_cfg(Ctx(1, fp), wol_cfg))

GetWol ==
    \E fp \in FailPlans1(MaxWolFailAt) :
        /\ Len(hist) < MaxWolOps
        /\ Call(1, "mars_get_wol", <<>>, mars_get_wol(Ctx(1, fp)))

SpecWol ==
    WolInit /\
    [][\/ WolEnCfg
        \/ GetWol]_vars

----------------------------------------------------------------------------
(* mars_set_wol, once, on a chip with any of a few interrupt-mask, WOL     *)
(* configuration and page register contents, for a few device addresses,   *)
(* with at most one failing bus transaction.                                *)

\* a failure-free mars_set_wol makes 24 bus transactions
MaxSetWolFailAt == 24

MacAddrs ==
    {<<\haa, \hbb, \hcc, \hdd, \hee, \hff>>, <<0, 0, 0, 0, 0, 0>>,
     <<\h01, \h02, \h03, \h04, \h05, \h06>>, <<\hff, \h00, \h80, \h7f, \h00, \hff>>}

SetWolInit ==
    /\ \E wol \in {0, \h4f, \hffb0}, intr \in {0, CTC_MARS_WOL_INTR, \hffbf},
          page \in {0, 2} :
         chip = [d \in Devs |->
                    IF d = 1
                    THEN [MkChip(0, page, wol, 1, 0) EXCEPT
                            !.mii[<<CTC_PHY_REG_SPACE, CTC_MARS_INTR_REG>>] = intr]
                    ELSE MkChip(0, 0, 0, 0, 0)]
    /\ \E a \in MacAddrs :
         phydev = [d \in Devs |-> [NewDev EXCEPT !.dev_addr = a]]
    /\ g_port_type = 0
    /\ g_port_status = 0
    /\ hist = <<>>
    /\ last = NoCall
    /\ thr = <<>>

SetWol ==
    \E wolopts \in {0, WAKE_MAGIC}, fp \in FailPlans1(MaxSetWolFailAt) :
        /\ hist = <<>>
        /\ Call(1, "mars_set_wol", <<wolopts>>, mars_set_wol(Ctx(1, fp), wolopts))

SetWolRev1 ==
    \E wolopts \in {0, WAKE_MAGIC}, fp \in FailPlans1(MaxSetWolFailAt) :
        /\ hist = <<>>
        /\ Call(1, "mars_set_wol_rev1", <<wolopts>>,
                mars_set_wol_rev1(Ctx(1, fp), wolopts))

SpecSetWol == SetWolInit /\ [][SetWol \/ SetWolRev1]_vars

----------------------------------------------------------------------------
(* Interrupt handling after wake-on-LAN was armed: a failure-free magic    *)
(* mars_set_wol, then a bounded sequence of mars_config_intr (interrupts   *)
(* enabled or disabled), mars_ack_interrupt and mars_read_status calls,    *)
(* each with at most one failing bus transaction.                           *)

MaxIntrOps == 3

\* mars_read_status on a fibre or combo port makes up to 7 transactions
MaxIntrFailAt == 7

IntrSetWol ==
    /\ hist = <<>>
    /\ Call(1, "mars_set_wol", <<WAKE_MAGIC>>, mars_set_wol(Ctx(1, NoFail), WAKE_MAGIC))

IntrConfig ==
    \E interrupts \in {0, 1}, fp \in FailPlans1(MaxIntrFailAt) :
        /\ hist /= <<>>
        /\ Len(hist) < MaxIntrOps
        /\ Call(1, "mars_config_intr", <<interrupts>>,
                mars_config_intr(Bus(chip[1], fp,
                                     [phydev[1] EXCEPT !.interrupts = interrupts],
                                     g_port_type, g_port_status)))

IntrAck ==
    \E fp \in FailPlans1(MaxIntrFailAt) :
        /\ hist /= <<>>
        /\ Len(hist) < MaxIntrOps
        /\ Call(1, "mars_ack_interrupt", <<>>, mars_ack_interrupt(Ctx(1, fp)))

IntrReadStatus ==
    \E fp \in FailPlans1(MaxIntrFailAt) :
        /\ hist /= <<>>
        /\ Len(hist) < MaxIntrOps
        /\ Call(1, "mars_read_status", <<>>, mars_read_status(Ctx(1, fp)))

SpecIntr ==
    SetWolInit /\ [][IntrSetWol \/ IntrConfig \/ IntrAck \/ IntrReadStatus]_vars

----------------------------------------------------------------------------
(* One call of mars_config_advert, mars_setup_forced, mars1s_config_aneg   *)
(* or mars_read_status on an initialised device, with register contents    *)
(* and a request drawn for the call and at most one failing transaction.   *)

\* a failure-free mars_config_advert makes 35 bus transactions
MaxCallFailAt == 36

\* chip c with MII register reg of space holding v
WithMii(c, space, reg, v) == [c EXCEPT !.mii[<<space, reg>>] = v]

\* the device after a failure-free mars_config_init, for each port type and
\* for a copper BMSR with and without BMSR_ESTATEN (gigabit modes supported
\* or not)
CallInit ==
    /\ \E strap \in {MARS_PORT_TYPE_UTP, MARS_PORT_TYPE_FIBER, MARS_PORT_TYPE_COMBO},
          bmsr \in {\h7949, \h7849} :
         LET c0 == WithMii(MkChip(strap, 0, 0, 0, 0), CTC_PHY_REG_SPACE, MII_BMSR, bmsr)
             p == mars_config_init(Bus(c0, NoFail, NewDev, 0, 0)).b
         IN  /\ chip = [d \in Devs |-> IF d = 1 THEN p.chip ELSE MkChip(0, 0, 0, 0, 0)]
             /\ phydev = [d \in Devs |-> IF d = 1 THEN p.dev ELSE NewDev]
             /\ g_port_type = p.pt
             /\ g_port_status = p.ps
    /\ hist = <<>>
    /\ last = NoCall
    /\ thr = <<>>

\* advertising: what the host asks to advertise (everything, 100baseT/Full
\* with autonegotiation, 1000baseT/Full with an unsupported mode, every
\* legacy mode); adv, giga: the contents of MII_ADVERTISE and MII_CTRL1000
CallConfigAdvert ==
    \E advertising \in {BitOr(PHY_GBIT_FEATURES, BitOr(SUPPORTED_Pause, SUPPORTED_Asym_Pause)),
                        BitOr(SUPPORTED_100baseT_Full, SUPPORTED_Autoneg),
                        BitOr(SUPPORTED_1000baseT_Full, \h1000), \hffff},
       adv \in {\h01e1, \h0de1}, giga \in {\h0300, \h0000},
       fp \in FailPlans1(MaxCallFailAt) :
        LET c == WithMii(WithMii(chip[1], CTC_PHY_REG_SPACE, MII_ADVERTISE, adv),
                         CTC_PHY_REG_SPACE, MII_CTRL1000, giga)
            dev == [phydev[1] EXCEPT !.advertising = advertising]
        IN  /\ hist = <<>>
            /\ CallOn(1, c, "mars_config_advert", <<advertising>>,
                      mars_config_advert(Bus(c, fp, dev, g_port_type, g_port_status)))

\* ctl, sctl: the contents of the PRIMARY and of the SECONDARY BMCR
CallSetupForced ==
    \E f \in ForcedChoices \cup {<<SPEED_100, DUPLEX_HALF>>},
       ctl \in {\h1140, \h0000, \h4d40, \h7fff}, sctl \in {\h1140, \h0140},
       fp \in FailPlans1(MaxCallFailAt) :
        LET c == WithMii(WithMii(chip[1], CTC_PHY_REG_SPACE, MII_BMCR, ctl),
                         CTC_SDS_REG_SPACE, MII_BMCR, sctl)
            dev == [phydev[1] EXCEPT !.autoneg = AUTONEG_DISABLE,
                                     !.speed = f[1], !.duplex = f[2],
                                     !.pause = 1, !.asym_pause = 1]
        IN  /\ hist = <<>>
            /\ CallOn(1, c, "mars_setup_forced", <<f[1], f[2]>>,
                      mars_setup_forced(Bus(c, fp, dev, g_port_type, g_port_status)))

\* mars1s_config_aneg with autonegotiation asked for
CallConfigAneg ==
    \E advertising \in {BitOr(PHY_GBIT_FEATURES, BitOr(SUPPORTED_Pause, SUPPORTED_Asym_Pause)),
                        BitOr(SUPPORTED_100baseT_Full, SUPPORTED_Autoneg)},
       adv \in {\h01e1, \h0de1}, giga \in {\h0300, \h0000},
       ctl \in {\h1140, \h0140, \h1540, \h0000},
       fp \in FailPlans1(MaxCallFailAt) :
        LET c == WithMii(WithMii(WithMii(chip[1],
                             CTC_PHY_REG_SPACE, MII_ADVERTISE, adv),
                             CTC_PHY_REG_SPACE, MII_CTRL1000, giga),
                             CTC_PHY_REG_SPACE, MII_BMCR, ctl)
            dev == [phydev[1] EXCEPT !.autoneg = AUTONEG_ENABLE,
                                     !.advertising = advertising]
        IN  /\ hist = <<>>
            /\ CallOn(1, c, "mars1s_config_aneg", <<AUTONEG_ENABLE, advertising>>,
                      mars1s_config_aneg(Bus(c, fp, dev, g_port_type, g_port_status)))

\* ss: the chip status register of the PRIMARY space (the SECONDARY one
\* holds its complement); speed, duplex: what the device held before
CallReadStatus ==
    \E ss \in {\h0000, \h2000, \h4000, \h6000, \h8000, \ha000, \hc000, \he000},
       old \in {<<SPEED_1000, DUPLEX_FULL>>, <<SPEED_10, DUPLEX_HALF>>},
       cu \in {0, 1}, fi \in {0, 1}, fp \in FailPlans1(MaxCallFailAt) :
        LET c == WithMii(WithMii(SetLink(chip[1], cu, fi),
                             CTC_PHY_REG_SPACE, CTC_MARS_SSREG, ss),
                             CTC_SDS_REG_SPACE, CTC_MARS_SSREG, 65535 - ss)
            dev == [phydev[1] EXCEPT !.speed = old[1], !.duplex = old[2]]
        IN  /\ hist = <<>>
            /\ CallOn(1, c, "mars_read_status", <<old[1], old[2]>>,
                      mars_read_status(Bus(c, fp, dev, g_port_type, g_port_status)))

\* a poll: cu, fi are the link state of the two media, stale the media
\* whose link dropped since their status was last read, page the content
\* of the page register
CallPollLink ==
    \E cu \in {0, 1}, fi \in {0, 1}, stale \in SUBSET Spaces, page \in {0, 2},
       fp \in FailPlans1(MaxCallFailAt) :
        LET c == [SetLink(chip[1], cu, fi) EXCEPT
                     !.stale = stale,
                     !.ext[<<CTC_PHY_REG_SPACE, CTC_MARS_PAGE_REG>>] = page]
        IN  /\ hist = <<>>
            /\ CallOn(1, c, "mars_read_status", <<>>,
                      mars_read_status(Bus(c, fp, phydev[1], g_port_type, g_port_status)))

SpecCall ==
    CallInit /\
    [][\/ CallConfigAdvert
        \/ CallSetupForced
        \/ CallConfigAneg
        \/ CallReadStatus
        \/ CallPollLink]_vars

----------------------------------------------------------------------------
(* Claims about the register-access helpers (SpecAccess).                  *)

PageHelpers == {"mars_page_read", "mars_page_write", "mars_page_ext_write"}

\* The helper got as far as the restore: transactions 1..4 read the old page
\* and select the target, the inner access follows, the restore is last.
ReachedRestore(l) == Len(l.log) >= 6

\* every transaction that reads or writes the page register succeeded
PageRegTxOk(l) ==
    /\ Len(l.log) >= 7
    /\ \A i \in 1..4 : l.log[i].ret >= 0
    /\ \A i \in {Len(l.log) - 1, Len(l.log)} : l.log[i].ret >= 0

\* a transaction of the inner access failed
InnerFailed(l) ==
    \E i \in 5..(Len(l.log) - 2) : l.log[i].ret < 0

\* a transaction of the restoring select failed (it is then the last one)
RestoreFailed(l) ==
    /\ ReachedRestore(l)
    /\ l.log[Len(l.log)].ret < 0

\* C1: when the page-register accesses of a temporary-space-switch helper
\* succeed, the space selected at return is the space selected before the
\* call, whether the inner access succeeded or failed.
C1_SpaceRestored ==
    (last.name \in PageHelpers /\ PageRegTxOk(last))
        => Space(chip[last.dev]) = Space(last.pre)

\* a helper switched from SECONDARY to PRIMARY, its inner access failed, and
\* the restore went through
C1_Witness ==
    /\ last.name \in PageHelpers
    /\ PageRegTxOk(last)
    /\ InnerFailed(last)
    /\ last.ret < 0
    /\ Space(last.pre) = CTC_SDS_REG_SPACE
    /\ last.args[1] = CTC_PHY_REG_SPACE

\* C2 as stated: on every exit path of a helper, under every pattern of bus
\* failures, the space at return is the space before the call.
C2_Original ==
    last.name \in PageHelpers => Space(chip[last.dev]) = Space(last.pre)

\* C2 amended: on every exit path of a helper the space at return is the
\* space before the call, except when a bus transaction of the restoring
\* select itself fails; the helper then returns that transaction's error.
C2_RestoredUnlessRestoreFails ==
    last.name \in PageHelpers =>
        \/ Space(chip[last.dev]) = Space(last.pre)
        \/ /\ RestoreFailed(last)
           /\ last.ret = last.log[Len(last.log)].ret

\* an error exit that keeps the space: the select of the other space failed
\* at its data write
C2_Witness ==
    /\ last.name \in PageHelpers
    /\ last.args[1] # Space(last.pre)
    /\ Len(last.log) = 4
    /\ last.log[4].ret < 0
    /\ last.ret < 0
    /\ Space(chip[last.dev]) = Space(last.pre)

\* C8: an indirect access of register R writes R to latch register 0x1e and
\* then makes exactly one access of data register 0x1f; when the latch write
\* fails it returns that error and makes no access of 0x1f.
C8_LatchThenData ==
    last.name \in {"mars_ext_read", "mars_ext_write"} =>
        /\ Len(last.log) >= 1
        /\ last.log[1].op = "w"
        /\ last.log[1].reg = LATCH_REG
        /\ last.log[1].val = last.args[1]
        /\ last.log[1].ret < 0 =>
              /\ Len(last.log) = 1
              /\ last.ret = last.log[1].ret
        /\ last.log[1].ret >= 0 =>
              /\ Len(last.log) = 2
              /\ last.log[2].reg = DATA_REG
              /\ last.log[2].latch = last.args[1]
              /\ last.log[2].op = (IF last.name = "mars_ext_read" THEN "r" ELSE "w")
              /\ last.name = "mars_ext_write" => last.log[2].val = last.args[2]
              /\ last.ret = (IF last.name = "mars_ext_read"
                             THEN last.log[2].val ELSE last.log[2].ret)

\* an indirect read whose latch write failed
C8_Witness ==
    /\ last.name = "mars_ext_read"
    /\ Len(last.log) = 1
    /\ last.log[1].ret < 0
    /\ last.ret < 0

----------------------------------------------------------------------------
(* Claims about configure_aneg (Spec).                                     *)

ForcedRequest(l) ==
    l.name = "mars1s_config_aneg" /\ l.args[1] = AUTONEG_DISABLE

\* transaction e reads or writes an advertisement register
AdvertAccess(e) == e.reg \in {MII_ADVERTISE, MII_CTRL1000}

\* transaction e writes the control register of space
BmcrWrite(e, space) == e.op = "w" /\ e.reg = MII_BMCR /\ e.space = space

Bmcr(c, space) == c.mii[<<space, MII_BMCR>>]

AnenableSet(v) == (v % (2 * BMCR_ANENABLE)) >= BMCR_ANENABLE
AnrestartSet(v) == (v % (2 * BMCR_ANRESTART)) >= BMCR_ANRESTART

\* C3 as stated: on a COPPER or COMBO port, configure_aneg with
\* autonegotiation disabled writes neither advertisement register and never
\* writes autoneg-enable or autoneg-restart into the PRIMARY control
\* register, so on successful return that register has autoneg-enable clear.
C3_Original ==
    (ForcedRequest(last) /\ last.prept \in {MARS_PORT_TYPE_UTP, MARS_PORT_TYPE_COMBO})
        => /\ \A i \in 1..Len(last.log) :
                ~(last.log[i].op = "w" /\ AdvertAccess(last.log[i]))
           /\ \A i \in 1..Len(last.log) :
                BmcrWrite(last.log[i], CTC_PHY_REG_SPACE)
                    => /\ ~AnenableSet(last.log[i].val)
                       /\ ~AnrestartSet(last.log[i].val)
           /\ last.ret = 0 => ~AnenableSet(Bmcr(chip[last.dev], CTC_PHY_REG_SPACE))

\* an initialisation that ran on device d without bus failure
InitialisedClean(d) ==
    \E i \in 1..Len(hist) :
        /\ hist[i].name = "mars_config_init"
        /\ hist[i].dev = d
        /\ hist[i].ret = 0
        /\ ~hist[i].faulty

StrapOf(c) == c.ext[<<CTC_PHY_REG_SPACE, CTC_MARS_CHIP_CFG_REG>>]

\* C4: after initialisation with configuration register value 0x1 (FIBER),
\* configure_aneg with autonegotiation disabled reads and writes neither
\* advertisement register and does not write the PRIMARY control register;
\* when it returns 0 it has written the SECONDARY control register with
\* autoneg-enable clear, and that register has autoneg-enable clear.
C4_FiberForcedOnly ==
    (ForcedRequest(last) /\ InitialisedClean(last.dev) /\ StrapOf(last.pre) = 1)
        => /\ \A i \in 1..Len(last.log) :
                /\ ~AdvertAccess(last.log[i])
                /\ ~BmcrWrite(last.log[i], CTC_PHY_REG_SPACE)
           /\ last.ret = 0 =>
                /\ \E i \in 1..Len(last.log) :
                     /\ BmcrWrite(last.log[i], CTC_SDS_REG_SPACE)
                     /\ last.log[i].ret = 0
                     /\ ~AnenableSet(last.log[i].val)
                /\ ~AnenableSet(Bmcr(chip[last.dev], CTC_SDS_REG_SPACE))

\* the forced request went through on the fibre port, whose SECONDARY
\* control register had autoneg-enable set
C4_Witness ==
    /\ ForcedRequest(last)
    /\ InitialisedClean(last.dev)
    /\ StrapOf(last.pre) = 1
    /\ last.prept = MARS_PORT_TYPE_FIBER
    /\ last.ret = 0
    /\ AnenableSet(Bmcr(last.pre, CTC_SDS_REG_SPACE))
    /\ ~AnenableSet(Bmcr(chip[last.dev], CTC_SDS_REG_SPACE))

----------------------------------------------------------------------------
(* Claims about port-type detection and link polling (SpecLink).           *)

\* transaction e is the successful read of the configuration register
StrapRead(e) ==
    /\ e.op = "r"
    /\ e.reg = DATA_REG
    /\ e.latch = CTC_MARS_CHIP_CFG_REG
    /\ e.ret >= 0

\* C6: for every value V read from configuration register 0xa001, the port
\* type is COPPER when V & 7 is 0 or 3, FIBER when it is 1, 4 or 5, COMBO
\* otherwise; COPPER and FIBER set Active Media to the same medium, COMBO
\* leaves Active Media as it was.
C6_Classification ==
    last.name = "mars_config_init" =>
        \A i \in 1..Len(last.log) :
            StrapRead(last.log[i]) =>
                /\ (last.log[i].val % 8) \in {0, 3} =>
                      /\ g_port_type = MARS_PORT_TYPE_UTP
                      /\ g_port_status = MARS_PORT_TYPE_UTP
                /\ (last.log[i].val % 8) \in {1, 4, 5} =>
                      /\ g_port_type = MARS_PORT_TYPE_FIBER
                      /\ g_port_status = MARS_PORT_TYPE_FIBER
                /\ (last.log[i].val % 8) \in {2, 6, 7} =>
                      /\ g_port_type = MARS_PORT_TYPE_COMBO
                      /\ g_port_status = last.preps

\* a COMBO value with bits set above the low three, detected again after a
\* poll had made FIBER the Active Media
C6_Witness ==
    /\ last.name = "mars_config_init"
    /\ \E i \in 1..Len(last.log) :
          /\ StrapRead(last.log[i])
          /\ last.log[i].val > 7
          /\ (last.log[i].val % 8) \in {2, 6, 7}
    /\ last.preps = MARS_PORT_TYPE_FIBER
    /\ g_port_type = MARS_PORT_TYPE_COMBO
    /\ g_port_status = MARS_PORT_TYPE_FIBER

\* the bus transactions of the mars_update_link part of a mars_read_status
PollLog(l) == SubSeq(l.log, 1, l.out.n)

\* mars_update_link ran on a COMBO port, without bus failure, with both
\* link-status bits set
ComboBothUp(l) ==
    /\ l.name = "mars_read_status"
    /\ l.prept = MARS_PORT_TYPE_COMBO
    /\ ~Faulty(PollLog(l))
    /\ LinkUp(l.pre, CTC_PHY_REG_SPACE)
    /\ LinkUp(l.pre, CTC_SDS_REG_SPACE)

\* C7: on a COMBO port with both link-status bits set, update_link without
\* bus failure reports link up and Active Media COPPER, whatever Active
\* Media was before, and reads no fibre status register in that poll.
C7_CopperPrecedence ==
    ComboBothUp(last) =>
        /\ last.out.ret = 0
        /\ last.out.link = 1
        /\ last.out.ps = MARS_PORT_TYPE_UTP
        /\ \A i \in 1..last.out.n :
              ~(/\ last.log[i].op = "r"
                /\ last.log[i].reg = MII_BMSR
                /\ last.log[i].space = CTC_SDS_REG_SPACE)

\* both links up at a poll that found FIBER as Active Media
C7_Witness ==
    /\ ComboBothUp(last)
    /\ last.preps = MARS_PORT_TYPE_FIBER
    /\ last.out.ps = MARS_PORT_TYPE_UTP
    /\ last.out.link = 1

----------------------------------------------------------------------------
(* Claim about the port type of two devices (SpecMulti).                   *)

\* C5 as stated: once both devices have been initialised, every later
\* configure_aneg or status poll on a device acts according to the port
\* type that device's own configuration register classifies to.
C5_Original ==
    (/\ last.name \in {"mars1s_config_aneg", "mars_read_status"}
     /\ \A d \in Devs : InitialisedClean(d))
        => last.prept = PortTypeOf(StrapOf(last.pre))

----------------------------------------------------------------------------
(* Claim about concurrent indirect accesses (SpecConc).                    *)

\* C9 as stated: no bus transaction of another indirect access occurs
\* between an access's latch write and its own data-register access, and
\* every indirect read returns what the register it latched holds.
C9_Original ==
    /\ \A i \in 1..(Len(thr.bus) - 1) :
          thr.bus[i].reg = LATCH_REG =>
              /\ thr.bus[i + 1].t = thr.bus[i].t
              /\ thr.bus[i + 1].reg = DATA_REG
    /\ \A t \in Threads :
          (thr.th[t].completed /\ thr.th[t].acc.op = "r")
              => thr.th[t].ret = thr.th[t].held

----------------------------------------------------------------------------
(* Claim about Wake-on-LAN configuration (SpecWol).                        *)

\* the call before the last one
Prev == hist[Len(hist) - 1]

\* mars_get_wol ran straight after mars_wol_en_cfg, neither with a bus
\* failure
CfgThenGet ==
    /\ Len(hist) >= 2
    /\ last.name = "mars_get_wol"
    /\ ~Faulty(last.log)
    /\ Prev.name = "mars_wol_en_cfg"
    /\ ~Prev.faulty

\* C10: for every prior value of register 0xa00a and with no bus failure,
\* mars_wol_en_cfg with enable = 0 followed by mars_get_wol reports no WOL
\* option, and mars_wol_en_cfg with enable, PULSE, 672 ms followed by
\* mars_get_wol reports WAKE_MAGIC.
C10_CfgThenGet ==
    CfgThenGet =>
        /\ last.out.supported = WAKE_MAGIC
        /\ Prev.args[1].enable = 0 => last.out.wolopts = 0
        /\ Prev.args[1] = [enable |-> 1, type |-> MARS_WOL_TYPE_PULSE,
                           width |-> MARS_WOL_WIDTH_672MS]
              => last.out.wolopts = WAKE_MAGIC

\* WOL was enabled in the register, the configuration disabled it, and
\* mars_get_wol reports it disabled
C10_Witness ==
    /\ CfgThenGet
    /\ Prev.args[1].enable = 0
    /\ last.out.wolopts = 0
    /\ last.pre.ext[<<CTC_PHY_REG_SPACE, CTC_MARS_WOL_CFG_REG>>] = \hffb0
    /\ last.log[2].val = \hffb0

----------------------------------------------------------------------------
(* Wake-on-LAN configuration bits.                                         *)

\* the call that just returned ran mars_wol_en_cfg to its end: the last
\* transaction is the successful data write of register 0xa00a
WolCfgWritten ==
    /\ last.name = "mars_wol_en_cfg"
    /\ last.ret = 0
    /\ Len(last.log) = 4
    /\ last.log[4].op = "w" /\ last.log[4].reg = DATA_REG
    /\ last.log[4].latch = CTC_MARS_WOL_CFG_REG

\* C11: for every config, the type, pulse-width, enable and
\* interrupt-select bits (mask 0x4f) of the value mars_wol_en_cfg writes to
\* register 0xa00a are those the config alone gives, as if all five had been
\* cleared first; they do not depend on the value read (after a disable, the
\* type and width bits are clear).
C11_Original ==
    WolCfgWritten =>
        BitAnd(last.log[4].val, \h4f) = BitAnd(WolCfgValue(0, last.args[1]), \h4f)

\* C17: mars_get_wol always reports supported = WAKE_MAGIC and hands no
\* error back; it reports WAKE_MAGIC enabled exactly when both transactions
\* of the indirect read of register 0xa00a succeed and bit 3 of the register
\* is set, and reports nothing enabled when either transaction fails.
C17_GetWol ==
    last.name = "mars_get_wol" =>
        /\ last.ret = 0
        /\ last.out.supported = WAKE_MAGIC
        /\ last.out.wolopts \in {0, WAKE_MAGIC}
        /\ last.out.wolopts = WAKE_MAGIC <=>
              /\ ~Faulty(last.log)
              /\ Test(last.pre.ext[<<CTC_PHY_REG_SPACE, CTC_MARS_WOL_CFG_REG>>],
                      CTC_MARS_WOL_EN)
        /\ Faulty(last.log) => last.out.wolopts = 0

\* the data read of an enabled register failed and nothing is reported
\* enabled
C17_Witness ==
    /\ last.name = "mars_get_wol"
    /\ Len(last.log) = 2
    /\ last.log[2].op = "r" /\ last.log[2].ret = EIO
    /\ Test(last.pre.ext[<<CTC_PHY_REG_SPACE, CTC_MARS_WOL_CFG_REG>>], CTC_MARS_WOL_EN)
    /\ last.out.wolopts = 0
    /\ last.out.supported = WAKE_MAGIC

\* the positions in the call's log of the successful data writes of extended
\* register regnum
ExtWrites(regnum) ==
    {i \in 1..Len(last.log) :
        /\ last.log[i].op = "w" /\ last.log[i].reg = DATA_REG
        /\ last.log[i].latch = regnum /\ last.log[i].ret = 0}

MagicSetWol == last.name = "mars_set_wol" /\ Test(last.args[1], WAKE_MAGIC)

\* C12: a successful mars_set_wol with WAKE_MAGIC writes register 0xa007 =
\* (a[0] << 8) | a[1], 0xa008 = (a[2] << 8) | a[3] and 0xa009 =
\* (a[4] << 8) | a[5] for the device address a, each once, in that order and
\* after the write of the WOL configuration register 0xa00a; the registers
\* hold these values at return.
C12_MagicAddress ==
    (MagicSetWol /\ last.ret = 0) =>
        LET a == last.predev.dev_addr
            n == Len(last.log)
        IN  /\ ExtWrites(CTC_MARS_MAGIC_PACKET_MAC_ADDR2) = {n - 4}
            /\ ExtWrites(CTC_MARS_MAGIC_PACKET_MAC_ADDR1) = {n - 2}
            /\ ExtWrites(CTC_MARS_MAGIC_PACKET_MAC_ADDR0) = {n}
            /\ ExtWrites(CTC_MARS_WOL_CFG_REG) = {n - 6}
            /\ last.log[n - 4].val = a[1] * 256 + a[2]
            /\ last.log[n - 2].val = a[3] * 256 + a[4]
            /\ last.log[n].val = a[5] * 256 + a[6]
            /\ chip[1].ext[<<CTC_PHY_REG_SPACE, CTC_MARS_MAGIC_PACKET_MAC_ADDR2>>]
                  = a[1] * 256 + a[2]
            /\ chip[1].ext[<<CTC_PHY_REG_SPACE, CTC_MARS_MAGIC_PACKET_MAC_ADDR1>>]
                  = a[3] * 256 + a[4]
            /\ chip[1].ext[<<CTC_PHY_REG_SPACE, CTC_MARS_MAGIC_PACKET_MAC_ADDR0>>]
                  = a[5] * 256 + a[6]

\* AA:BB:CC:DD:EE:FF was programmed as 0xAABB, 0xCCDD, 0xEEFF
C12_Witness ==
    /\ MagicSetWol /\ last.ret = 0
    /\ last.predev.dev_addr = <<\haa, \hbb, \hcc, \hdd, \hee, \hff>>
    /\ chip[1].ext[<<CTC_PHY_REG_SPACE, CTC_MARS_MAGIC_PACKET_MAC_ADDR2>>] = \haabb
    /\ chip[1].ext[<<CTC_PHY_REG_SPACE, CTC_MARS_MAGIC_PACKET_MAC_ADDR1>>] = \hccdd
    /\ chip[1].ext[<<CTC_PHY_REG_SPACE, CTC_MARS_MAGIC_PACKET_MAC_ADDR0>>] = \heeff

\* the positions in the call's log of the failed reads of the PRIMARY
\* interrupt register
IntrReadFailed ==
    {i \in 1..Len(last.log) :
        /\ last.log[i].op = "r" /\ last.log[i].reg = CTC_MARS_INTR_REG
        /\ last.log[i].space = CTC_PHY_REG_SPACE /\ last.log[i].ret < 0}

\* C15: when mars_set_wol is called with WAKE_MAGIC and the read of the
\* PRIMARY interrupt register 0x12 fails, the call returns that error and
\* writes nothing to the interrupt register, the WOL configuration register
\* or the magic-packet address registers.
C15_Original ==
    (MagicSetWol /\ IntrReadFailed # {}) =>
        /\ \E i \in IntrReadFailed : last.ret = last.log[i].ret
        /\ \A i \in 1..Len(last.log) :
              ~(last.log[i].op = "w" /\ last.log[i].reg = CTC_MARS_INTR_REG)
        /\ \A regnum \in {CTC_MARS_WOL_CFG_REG, CTC_MARS_MAGIC_PACKET_MAC_ADDR2,
                          CTC_MARS_MAGIC_PACKET_MAC_ADDR1,
                          CTC_MARS_MAGIC_PACKET_MAC_ADDR0} :
              ExtWrites(regnum) = {}

----------------------------------------------------------------------------
(* Error propagation in mars_config_init.                                  *)

\* C16: mars_config_init returns a negative error code whenever a bus
\* transaction it issued failed, the link-timer write and the port-type read
\* included; it never returns 0 after a failed transaction.
C16_Original ==
    (last.name = "mars_config_init" /\ Faulty(last.log)) => last.ret < 0

----------------------------------------------------------------------------
(* Idempotence of the space selection.                                     *)

\* mars_select_reg_space ran twice in a row with the same target, neither
\* call with a bus failure
SelectedTwice ==
    /\ Len(hist) = 2
    /\ hist[1].name = "mars_select_reg_space"
    /\ last.name = "mars_select_reg_space"
    /\ hist[1].args = last.args
    /\ ~hist[1].faulty /\ ~Faulty(last.log)

\* C18: with no bus failure, a second mars_select_reg_space with the same
\* target leaves the chip as the first left it: page register 0xa000 = 0x0
\* for PRIMARY or 0x2 for SECONDARY, latch = 0xa000, every other register
\* unchanged.
C18_Idempotent ==
    SelectedTwice =>
        /\ chip[1] = last.pre
        /\ chip[1].ext[<<CTC_PHY_REG_SPACE, CTC_MARS_PAGE_REG>>]
              = (IF last.args[1] = CTC_PHY_REG_SPACE THEN 0 ELSE 2)
        /\ chip[1].latch = CTC_MARS_PAGE_REG
        /\ last.ret = 0

\* SECONDARY was selected twice on a chip whose WOL register held 0xffff
C18_Witness ==
    /\ SelectedTwice
    /\ last.args[1] = CTC_SDS_REG_SPACE
    /\ Len(last.log) = 2
    /\ chip[1].ext[<<CTC_PHY_REG_SPACE, CTC_MARS_PAGE_REG>>] = 2
    /\ chip[1].ext[<<CTC_PHY_REG_SPACE, CTC_MARS_WOL_CFG_REG>>] = \hffff

----------------------------------------------------------------------------
(* Advertisement, status decoding, restart and forced setup, call by call. *)

\* C13: after any call of mars_config_advert, whether it returned 0, 1
\* (changed) or a bus error, the advertised modes of the device are a subset
\* of its supported modes, whatever was asked to be advertised.
C13_AdvertisedSupported ==
    last.name = "mars_config_advert" =>
        BitAnd(phydev[1].advertising, phydev[1].supported) = phydev[1].advertising

\* a call asked to advertise a mode the device does not support, failed on
\* the bus, and the mode is no longer advertised
C13_Witness ==
    /\ last.name = "mars_config_advert"
    /\ last.ret < 0
    /\ BitAnd(last.args[1], last.predev.supported) # last.args[1]
    /\ phydev[1].advertising = BitAnd(last.args[1], last.predev.supported)
    /\ phydev[1].supported = last.predev.supported

\* the values the call read from chip status register 0x11
StatusRead ==
    {last.log[i].val : i \in {j \in 1..Len(last.log) :
        /\ last.log[j].op = "r" /\ last.log[j].reg = CTC_MARS_SSREG
        /\ last.log[j].ret >= 0}}

\* C14: for the value S a successful mars_read_status read from register
\* 0x11: bit 15 set gives 1000 Mb/s full duplex whatever bits 14 and 13;
\* else bit 14 set gives 100 Mb/s, else 10 Mb/s, in both cases full duplex
\* iff bit 13 is set; the speed and duplex held before the call play no part.
C14_Decode ==
    (last.name = "mars_read_status" /\ last.ret = 0) =>
        /\ Cardinality(StatusRead) = 1
        /\ \A S \in StatusRead :
              /\ phydev[1].speed = (IF Test(S, \h8000) THEN SPEED_1000
                                    ELSE IF Test(S, \h4000) THEN SPEED_100
                                    ELSE SPEED_10)
              /\ phydev[1].duplex = (IF Test(S, \h8000) \/ Test(S, \h2000)
                                     THEN DUPLEX_FULL ELSE DUPLEX_HALF)

\* bit 15 set and bit 13 clear, read on a device that held 10 Mb/s half
\* duplex: 1000 Mb/s full duplex
C14_Witness ==
    /\ last.name = "mars_read_status" /\ last.ret = 0
    /\ StatusRead = {\h8000}
    /\ last.args = <<SPEED_10, DUPLEX_HALF>>
    /\ phydev[1].speed = SPEED_1000 /\ phydev[1].duplex = DUPLEX_FULL

\* mars1s_config_aneg ran with autonegotiation asked for and met no bus
\* failure
AnegCall ==
    /\ last.name = "mars1s_config_aneg"
    /\ last.args[1] = AUTONEG_ENABLE
    /\ ~Faulty(last.log)

\* the call changed the advertisement: it wrote MII_ADVERTISE (written only
\* when the value differs) or wrote MII_CTRL1000 a value other than the one
\* it held
AdvertChanged ==
    \E i \in 1..Len(last.log) :
        /\ last.log[i].op = "w" /\ last.log[i].space = CTC_PHY_REG_SPACE
        /\ \/ last.log[i].reg = MII_ADVERTISE
           \/ /\ last.log[i].reg = MII_CTRL1000
              /\ last.log[i].val # last.pre.mii[<<CTC_PHY_REG_SPACE, MII_CTRL1000>>]

\* the PRIMARY control register as the call met it has autoneg-enable clear
\* or isolate set
AnegOffOrIsolated ==
    \/ ~AnenableSet(Bmcr(last.pre, CTC_PHY_REG_SPACE))
    \/ Test(Bmcr(last.pre, CTC_PHY_REG_SPACE), BMCR_ISOLATE)

\* C19: with autonegotiation asked for, on a COPPER or COMBO port,
\* mars1s_config_aneg writes the autoneg-restart bit to the PRIMARY control
\* register if and only if mars_config_advert reported a change or the
\* control register shows autoneg-enable clear or isolate set; when none of
\* these holds the call does not write the PRIMARY control register.
C19_Original ==
    (AnegCall /\ last.prept \in {MARS_PORT_TYPE_UTP, MARS_PORT_TYPE_COMBO}) =>
        /\ (\E i \in 1..Len(last.log) :
               BmcrWrite(last.log[i], CTC_PHY_REG_SPACE) /\ AnrestartSet(last.log[i].val))
             <=> (AdvertChanged \/ AnegOffOrIsolated)
        /\ ~(AdvertChanged \/ AnegOffOrIsolated) =>
               \A i \in 1..Len(last.log) : ~BmcrWrite(last.log[i], CTC_PHY_REG_SPACE)

\* the positions in the call's log of the accesses (op "r" or "w") of the
\* control register of space
BmcrAccesses(op, space) ==
    {i \in 1..Len(last.log) :
        /\ last.log[i].op = op /\ last.log[i].reg = MII_BMCR
        /\ last.log[i].space = space}

\* the speed and duplex bits of BMCR for a forced request: BMCR_SPEED1000
\* (0x0040) or BMCR_SPEED100 (0x2000), BMCR_FULLDPLX (0x0100)
ForcedBits(speed, duplex) ==
    (IF speed = SPEED_1000 THEN \h0040 ELSE IF speed = SPEED_100 THEN \h2000 ELSE 0)
    + (IF duplex = DUPLEX_FULL THEN \h0100 ELSE 0)

\* C20: a successful mars_setup_forced writes the PRIMARY control register,
\* on COPPER and COMBO ports, once, with the loopback, isolate and power-down
\* bits (0x4c00) as read and the other bits exactly the speed and duplex
\* bits of the request (autoneg-enable clear), and sets pause and asym_pause
\* to 0; on FIBER and COMBO ports it writes the SECONDARY control register
\* the value read with autoneg-enable cleared; on a FIBER port it neither
\* reads nor writes the PRIMARY control register.
C20_SetupForced ==
    (last.name = "mars_setup_forced" /\ last.ret = 0) =>
        /\ last.prept \in {MARS_PORT_TYPE_UTP, MARS_PORT_TYPE_COMBO} =>
              /\ Cardinality(BmcrAccesses("w", CTC_PHY_REG_SPACE)) = 1
              /\ \A i \in BmcrAccesses("w", CTC_PHY_REG_SPACE) :
                    /\ BitAnd(last.log[i].val, \h4c00)
                          = BitAnd(Bmcr(last.pre, CTC_PHY_REG_SPACE), \h4c00)
                    /\ BitClear(last.log[i].val, \h4c00)
                          = ForcedBits(last.args[1], last.args[2])
                    /\ ~AnenableSet(last.log[i].val)
                    /\ Bmcr(chip[1], CTC_PHY_REG_SPACE) = last.log[i].val
              /\ phydev[1].pause = 0 /\ phydev[1].asym_pause = 0
        /\ last.prept \in {MARS_PORT_TYPE_FIBER, MARS_PORT_TYPE_COMBO} =>
              /\ Cardinality(BmcrAccesses("w", CTC_SDS_REG_SPACE)) = 1
              /\ \A i \in BmcrAccesses("w", CTC_SDS_REG_SPACE) :
                    /\ last.log[i].val
                          = BitClear(Bmcr(last.pre, CTC_SDS_REG_SPACE), BMCR_ANENABLE)
                    /\ Bmcr(chip[1], CTC_SDS_REG_SPACE) = last.log[i].val
        /\ last.prept = MARS_PORT_TYPE_FIBER =>
              /\ BmcrAccesses("r", CTC_PHY_REG_SPACE) = {}
              /\ BmcrAccesses("w", CTC_PHY_REG_SPACE) = {}
              /\ Bmcr(chip[1], CTC_PHY_REG_SPACE) = Bmcr(last.pre, CTC_PHY_REG_SPACE)

\* COMBO port, every bit of the PRIMARY control register set, 100 Mb/s full
\* duplex asked for: 0x6d00 written to PRIMARY, 0x0140 to SECONDARY
C20_Witness ==
    /\ last.name = "mars_setup_forced" /\ last.ret = 0
    /\ last.prept = MARS_PORT_TYPE_COMBO
    /\ last.args = <<SPEED_100, DUPLEX_FULL>>
    /\ Bmcr(last.pre, CTC_PHY_REG_SPACE) = \h7fff
    /\ Bmcr(last.pre, CTC_SDS_REG_SPACE) = \h1140
    /\ Bmcr(chip[1], CTC_PHY_REG_SPACE) = \h6d00
    /\ Bmcr(chip[1], CTC_SDS_REG_SPACE) = \h0140
    /\ phydev[1].pause = 0 /\ phydev[1].asym_pause = 0

----------------------------------------------------------------------------
(* Frame of the WOL configuration write.                                   *)

\* C21: mars_wol_en_cfg is a read-modify-write: after a successful call
\* every bit of register 0xa00a other than bits 0, 1, 2, 3 and 6 (mask
\* 0x4f) is as before the call, for every config and prior value, and the
\* call writes no register but the latch, the data register and, through
\* them, 0xa00a.
C21_UnrelatedBitsKept ==
    WolCfgWritten =>
        LET k == <<CTC_PHY_REG_SPACE, CTC_MARS_WOL_CFG_REG>>
        IN  /\ BitClear(chip[1].ext[k], \h4f) = BitClear(last.pre.ext[k], \h4f)
            /\ chip[1].ext[k] = last.log[4].val
            /\ \A j \in DOMAIN chip[1].ext \ {k} : chip[1].ext[j] = last.pre.ext[j]
            /\ chip[1].mii = last.pre.mii
            /\ \A i \in 1..Len(last.log) :
                  last.log[i].op = "w" =>
                      \/ last.log[i].reg = LATCH_REG /\ last.log[i].val = CTC_MARS_WOL_CFG_REG
                      \/ last.log[i].reg = DATA_REG /\ last.log[i].latch = CTC_MARS_WOL_CFG_REG

\* the register held 0xffb0 (every unrelated bit set, every WOL bit clear),
\* PULSE with 672 ms was enabled, and it holds 0xffff
C21_Witness ==
    /\ WolCfgWritten
    /\ last.args[1] = [enable |-> 1, type |-> MARS_WOL_TYPE_PULSE,
                       width |-> MARS_WOL_WIDTH_672MS]
    /\ last.pre.ext[<<CTC_PHY_REG_SPACE, CTC_MARS_WOL_CFG_REG>>] = \hffb0
    /\ chip[1].ext[<<CTC_PHY_REG_SPACE, CTC_MARS_WOL_CFG_REG>>] = \hffff

----------------------------------------------------------------------------
(* The link poll.                                                          *)

\* mars_update_link, run as the first part of the mars_read_status call that
\* just returned, returned 0
PollOk == last.name = "mars_read_status" /\ last.out.ret = 0

\* the positions in the log of the poll's successful reads of the status
\* register of space
BmsrReads(space) ==
    {i \in 1..last.out.n :
        /\ last.log[i].op = "r" /\ last.log[i].reg = MII_BMSR
        /\ last.log[i].space = space /\ last.log[i].ret >= 0}

\* the poll read the status register of space twice and the second read
\* had the link-status bit set
SecondReadUp(space) ==
    \E i, j \in BmsrReads(space) :
        /\ i < j
        /\ BmsrReads(space) = {i, j}
        /\ Test(last.log[j].val, BMSR_LSTATUS)

\* C22: when mars_update_link returns 0, the link it reports is up if and
\* only if the second of the two consecutive status reads of a medium the
\* poll checked had the link-status bit set: copper on a COPPER port, fibre
\* on a FIBER port, copper or else fibre on a COMBO port.  What the first
\* read of a pair returned plays no part.
C22_SecondRead ==
    PollOk =>
        /\ last.out.link = 1 <=>
              \/ SecondReadUp(CTC_PHY_REG_SPACE)
              \/ SecondReadUp(CTC_SDS_REG_SPACE)
        /\ last.prept = MARS_PORT_TYPE_UTP => BmsrReads(CTC_SDS_REG_SPACE) = {}
        /\ last.prept = MARS_PORT_TYPE_FIBER => BmsrReads(CTC_PHY_REG_SPACE) = {}
        /\ SecondReadUp(CTC_PHY_REG_SPACE) => BmsrReads(CTC_SDS_REG_SPACE) = {}

\* on a COMBO port the first copper read showed the latched link drop, the
\* second showed the link, and the poll reports link up
C22_Witness ==
    /\ PollOk
    /\ last.prept = MARS_PORT_TYPE_COMBO
    /\ \E i, j \in BmsrReads(CTC_PHY_REG_SPACE) :
          /\ i < j
          /\ ~Test(last.log[i].val, BMSR_LSTATUS)
          /\ Test(last.log[j].val, BMSR_LSTATUS)
    /\ last.out.link = 1

\* C23: whenever mars_update_link returns 0 with link up, the space selected
\* on the chip at its return is that of the recorded Active Media (PRIMARY
\* with g_port_status = UTP, SECONDARY with g_port_status = FIBER), whatever
\* space was selected before; when it returns 0 with link down, the space
\* selected is the one selected before the call.
C23_SpaceMatchesMedia ==
    PollOk =>
        /\ last.out.link = 1 =>
              \/ last.out.ps = MARS_PORT_TYPE_UTP /\ last.out.space = CTC_PHY_REG_SPACE
              \/ last.out.ps = MARS_PORT_TYPE_FIBER /\ last.out.space = CTC_SDS_REG_SPACE
        /\ last.out.link = 0 => last.out.space = Space(last.pre)

\* SECONDARY was selected, the copper link is up: PRIMARY is selected and
\* Active Media is COPPER
C23_Witness ==
    /\ PollOk
    /\ Space(last.pre) = CTC_SDS_REG_SPACE
    /\ last.out.link = 1
    /\ last.out.ps = MARS_PORT_TYPE_UTP
    /\ last.out.space = CTC_PHY_REG_SPACE

\* the space of Active Media value ps
MediaSpace(ps) ==
    IF ps = MARS_PORT_TYPE_FIBER THEN CTC_SDS_REG_SPACE ELSE CTC_PHY_REG_SPACE

\* C24: on a COMBO port, after each mars_read_status call of any sequence,
\* g_port_status is the medium on which the call's mars_update_link
\* reported link up, and is what it was before the call when the poll
\* reported link down or returned a bus error (so it is the medium of the
\* most recent poll that reported link up, or the value after
\* initialisation); the call reads the chip status and link-partner
\* registers from the space of that Active Media.
C24_ActiveMedia ==
    (last.name = "mars_read_status" /\ last.prept = MARS_PORT_TYPE_COMBO) =>
        /\ g_port_status =
              (IF last.out.ret = 0 /\ last.out.link = 1
               THEN IF SecondReadUp(CTC_PHY_REG_SPACE)
                    THEN MARS_PORT_TYPE_UTP ELSE MARS_PORT_TYPE_FIBER
               ELSE last.preps)
        /\ \A i \in (last.out.n + 1)..Len(last.log) :
              (last.log[i].op = "r" /\ last.log[i].reg \in {CTC_MARS_SSREG, MII_LPA})
                  => last.log[i].space = MediaSpace(g_port_status)

\* a second poll on a COMBO port found no link after the first had found
\* the fibre link: Active Media is still FIBER and the status registers were
\* read from SECONDARY
C24_Witness ==
    /\ Len(hist) = 2
    /\ hist[1].name = "mars_read_status"
    /\ last.name = "mars_read_status" /\ last.prept = MARS_PORT_TYPE_COMBO
    /\ last.ret = 0 /\ last.out.link = 0
    /\ last.preps = MARS_PORT_TYPE_FIBER
    /\ g_port_status = MARS_PORT_TYPE_FIBER
    /\ \E i \in (last.out.n + 1)..Len(last.log) :
          /\ last.log[i].reg = CTC_MARS_SSREG
          /\ last.log[i].space = CTC_SDS_REG_SPACE

----------------------------------------------------------------------------
(* The error code of a failed inner access.                                *)

\* the positions in the helper's log of the failed transactions of its
\* inner access: transaction 5, and for mars_page_ext_write, whose inner
\* access is a latch write and then a data write, transaction 6 when the
\* latch write succeeded
InnerFailures ==
    {i \in 1..Len(last.log) :
        /\ last.log[i].ret < 0
        /\ \/ i = 5
           \/ i = 6 /\ last.name = "mars_page_ext_write" /\ last.log[5].ret >= 0}

\* C25: when the inner register access of mars_page_read, mars_page_write or
\* mars_page_ext_write fails, the helper returns the error code of that
\* access, also when the restore of the prior space then fails with another
\* error code.
C25_Original ==
    (last.name \in PageHelpers /\ InnerFailures # {}) =>
        \A i \in InnerFailures : last.ret = last.log[i].ret

----------------------------------------------------------------------------
(* mars_set_wol failing while it stores the device address.                *)

\* the magic-packet address registers in the order mars_set_wol writes them
MacRegs ==
    <<CTC_MARS_MAGIC_PACKET_MAC_ADDR2, CTC_MARS_MAGIC_PACKET_MAC_ADDR1,
      CTC_MARS_MAGIC_PACKET_MAC_ADDR0>>

\* mars_set_wol with WAKE_MAGIC failed at a transaction of an address
\* register write: with everything before it successful these are
\* transactions 19..24 of the call
AddrWriteFailed ==
    /\ MagicSetWol
    /\ Len(last.log) \in 19..24
    /\ last.log[Len(last.log)].ret < 0
    /\ \A i \in 1..(Len(last.log) - 1) : last.log[i].ret >= 0

\* C26: when mars_set_wol with WAKE_MAGIC fails at the write of one of the
\* three address registers it returns the error without rollback: register
\* 0x12 keeps bit 6 set, 0xa00a keeps the enabled WOL configuration, the
\* address registers written before the failing one keep their new values,
\* and the failing one and those after it keep their old values.
C26_NoRollback ==
    AddrWriteFailed =>
        LET a == last.predev.dev_addr
            \* the address registers written in full before the failure
            k == (Len(last.log) - 19) \div 2
            ext(regnum) == chip[1].ext[<<CTC_PHY_REG_SPACE, regnum>>]
            old(regnum) == last.pre.ext[<<CTC_PHY_REG_SPACE, regnum>>]
        IN  /\ last.ret = last.log[Len(last.log)].ret
            /\ chip[1].mii[<<CTC_PHY_REG_SPACE, CTC_MARS_INTR_REG>>]
                  = BitOr(last.pre.mii[<<CTC_PHY_REG_SPACE, CTC_MARS_INTR_REG>>],
                          CTC_MARS_WOL_INTR)
            /\ ext(CTC_MARS_WOL_CFG_REG)
                  = BitOr(old(CTC_MARS_WOL_CFG_REG), \h4f)
            /\ \A j \in 1..3 :
                  ext(MacRegs[j]) = (IF j <= k THEN a[2 * j - 1] * 256 + a[2 * j]
                                     ELSE old(MacRegs[j]))

\* the data write of 0xa008 failed: 0xa007 holds 0xaabb, 0xa008 and 0xa009
\* hold 0, WOL is enabled and its interrupt unmasked
C26_Witness ==
    /\ AddrWriteFailed
    /\ Len(last.log) = 22
    /\ last.predev.dev_addr = <<\haa, \hbb, \hcc, \hdd, \hee, \hff>>
    /\ chip[1].ext[<<CTC_PHY_REG_SPACE, CTC_MARS_MAGIC_PACKET_MAC_ADDR2>>] = \haabb
    /\ chip[1].ext[<<CTC_PHY_REG_SPACE, CTC_MARS_MAGIC_PACKET_MAC_ADDR1>>] = 0
    /\ chip[1].ext[<<CTC_PHY_REG_SPACE, CTC_MARS_MAGIC_PACKET_MAC_ADDR0>>] = 0
    /\ Test(chip[1].ext[<<CTC_PHY_REG_SPACE, CTC_MARS_WOL_CFG_REG>>], CTC_MARS_WOL_EN)
    /\ Test(chip[1].mii[<<CTC_PHY_REG_SPACE, CTC_MARS_INTR_REG>>], CTC_MARS_WOL_INTR)
    /\ last.ret = EIO

(* C27 (as stated): once a magic-packet mars_set_wol has returned success, *)
(* bit 6 of the PRIMARY interrupt register 0x12 stays set through every    *)
(* later mars_config_intr, mars_ack_interrupt and mars_read_status call.   *)
WolArmed ==
    /\ hist /= <<>>
    /\ hist[1].name = "mars_set_wol"
    /\ hist[1].args = <<WAKE_MAGIC>>
    /\ hist[1].ret = 0
    /\ \A i \in 2..Len(hist) : hist[i].name /= "mars_set_wol"

C27_Original ==
    WolArmed =>
        BitAnd(chip[1].mii[<<CTC_PHY_REG_SPACE, CTC_MARS_INTR_REG>>],
               CTC_MARS_WOL_INTR) /= 0

(* C28 (as stated): whichever space the page register selected before     *)
(* the earlier revision's mars_set_wol, the same space is selected when it *)
(* returns, on success and on every error return.                           *)
C28_Original ==
    last.name = "mars_set_wol_rev1" => Space(chip[1]) = Space(last.pre)

====
